---------------------------- MODULE Spec2Model ----------------------------
(***************************************************************************)
(* Event-sourcing persistence core of Skafu (skafu_shared/events.py and    *)
(* skafu_shared/models.py): EventStore over a keyed table, AggregateRoot   *)
(* and Repository, driven by concurrent callers.                           *)
(*                                                                         *)
(* The table is the storage boundary: items keyed by                       *)
(* (aggregateId, eventSequence), a put that replaces the item at its key   *)
(* unless a condition on the existing item fails, and a range read of one  *)
(* aggregate's items in ascending key order.  Every table call is one      *)
(* atomic step; the steps of different callers interleave.  Every table    *)
(* call may also fail with a ClientError other than the conditional-check  *)
(* failure.                                                                *)
(***************************************************************************)
EXTENDS Integers, Sequences, FiniteSets, TLC

\* ------------------------------------------------------------ bounds
\* Length of the longest stream the table holds for aggregate "a" at the
\* start of Spec and SpecStore, and at the start of SpecWork.
MaxInit == 1
MaxLoaded == 3
\* Number of events created (uuid4 drawn) after the start, in Spec and
\* SpecStore.
MaxRaise == 2
\* In SpecWork: the number of events the callers raise in all.
MaxWork == 3

\* In SpecAgg: the number of events handed to one aggregate handle by
\* raise_event and apply_event, and the longest list given to from_history.
MaxEvents == 3
MaxHistory == 2

\* In SpecReplay: the number of events applied directly to one handle, and
\* the latest reading of the clock (the first is 0).
MaxReplay == 2
MaxClock == 1

\* In SpecKeys: the number of sequence numbers each caller formats, and the
\* number of decimal digits of the largest sequence numbers formatted.
MaxKeys == 1
MaxDigits == 11

\* In SpecLife: the largest version counter a handle reaches through
\* apply_event calls made on it directly.
MaxApplied == 2

\* In SpecCorrelation: the number of events a caller constructs between
\* two assignments of its context variable, and the number of correlation
\* ids generated for it.
MaxConstructed == 2

\* In SpecEvents: the number of events each caller's handler is given.
MaxHandled == 2

\* ------------------------------------------------------------ constants
\* f"{n:010d}": the minimum width of the persisted sequence string.
Width == 10

\* The concurrent callers: processes or threads, each with its own handle.
Callers == {1, 2}
AggregateIds == {"a", "b"}
\* The aggregate the callers of Spec and SpecWork contend for.
SharedIds == {"a"}
EventTypes == {"MetricCollected"}
\* Event types given to an aggregate in SpecAgg: the one MetricAggregate
\* recognizes and one it does not.
AllEventTypes == {"MetricCollected", "MetricArchived"}
\* Payloads, by what Metric(...) makes of them.
EventData == {"valid", "no_name"}

VARIABLES
    table,    \* the DynamoDB table: a set of items, at most one per key
    nextId,   \* per caller: how many uuid4 values it has drawn; its next
              \* event_id is <<caller, count + 1>>
    pc,       \* per caller: "idle", "seq" (in append_event, before the
              \* latest-sequence query), "put" (before put_item)
    agg,      \* per caller: its aggregate handle, <<>> for None
    op,       \* per caller: the operation in progress or last completed
    ret,      \* what the step just taken returned to its caller, if a call
              \* returned in it
    acked,    \* per aggregate id: number of append_event calls that returned
              \* normally (history)
    work,     \* per caller, in SpecWork: the stage of its unit of work and
              \* the save calls it has made
    clock,    \* what datetime.utcnow() returns at this moment
    bus,      \* EventBridge: the entries delivered to the event bus and the
              \* put_events calls made on the error bus
    current_id
              \* per caller: the correlation id the context variable holds
              \* in its execution context, <<>> for the empty string

vars ==
    <<table, nextId, pc, agg, op, ret, acked, work, clock, bus, current_id>>

\* ------------------------------------------------------------ sequence keys
RECURSIVE Digits(_)
\* str(n) for n >= 0, as a tuple of decimal digits, most significant first.
Digits(n) == IF n < 10 THEN <<n>> ELSE Append(Digits(n \div 10), n % 10)

RECURSIVE ZeroFill(_, _)
ZeroFill(d, w) == IF Len(d) >= w THEN d ELSE ZeroFill(<<0>> \o d, w)

\* f"{n:010d}" for n >= 0.
Format010d(n) == ZeroFill(Digits(n), Width)

\* Format010d on the numbers the model formats, computed once.
Formatted == [n \in 0..(MaxInit + MaxRaise + MaxLoaded
                         + MaxWork + 2)
                 |-> Format010d(n)]

Pad10(n) == Formatted[n]

RECURSIVE ParseInt(_)
\* int(s) for a string of decimal digits.
ParseInt(s) ==
    IF Len(s) = 0 THEN 0
    ELSE 10 * ParseInt(SubSeq(s, 1, Len(s) - 1)) + s[Len(s)]

RECURSIVE LexLess(_, _)
\* s < t for strings, as the table compares string attributes.
LexLess(s, t) ==
    IF Len(t) = 0 THEN FALSE
    ELSE IF Len(s) = 0 THEN TRUE
    ELSE IF s[1] # t[1] THEN s[1] < t[1]
    ELSE LexLess(Tail(s), Tail(t))

LexLeq(s, t) == s = t \/ LexLess(s, t)

\* ------------------------------------------------------------ table
\* The items of one partition (one aggregateId).
Partition(t, id) == {it \in t : it.aggregateId = id}

RECURSIVE SortAsc(_)
\* The items of a partition in ascending order of the range key.
SortAsc(items) ==
    IF items = {} THEN <<>>
    ELSE LET lo == CHOOSE x \in items :
                     \A y \in items : LexLeq(x.eventSequence, y.eventSequence)
         IN  <<lo>> \o SortAsc(items \ {lo})

\* The query with eventSequence > :from_seq in place of >=.
QueryAfter(t, id, from_seq) ==
    SortAsc({it \in Partition(t, id) :
                IF from_seq = <<>> THEN TRUE
                ELSE LexLess(from_seq[1], it.eventSequence)})

\* table.query(KeyConditionExpression='aggregateId = :aggregate_id'
\*             [AND eventSequence >= :from_seq]): from_seq is <<>> or <<key>>.
Query(t, id, from_seq) ==
    SortAsc({it \in Partition(t, id) :
                IF from_seq = <<>> THEN TRUE
                ELSE LexLeq(from_seq[1], it.eventSequence)})

\* The latest-item query without its key condition: the last item of the
\* whole table.
QueryLastOfTable(t, id) ==
    LET all == SortAsc(t)
    IN  IF all = <<>> THEN <<>> ELSE <<all[Len(all)]>>

\* table.query(..., ScanIndexForward=False, Limit=1)['Items']
QueryLast(t, id) ==
    LET all == Query(t, id, <<>>)
    IN  IF all = <<>> THEN <<>> ELSE <<all[Len(all)]>>

\* The item put_item finds at the key of the new item, <<>> if none.
ExistingItem(t, item) ==
    LET same == {it \in t : /\ it.aggregateId = item.aggregateId
                            /\ it.eventSequence = item.eventSequence}
    IN  IF same = {} THEN <<>> ELSE <<CHOOSE it \in same : TRUE>>

\* "attribute_not_exists(aggregateId) OR eventSequence < :expected_version"
\* evaluated on the existing item; expected is <<>> (no condition) or <<V>>.
ConditionHolds(existing, expected) ==
    IF expected = <<>> \/ existing = <<>> THEN TRUE
    ELSE LexLess(existing[1].eventSequence, Pad10(expected[1]))

\* The table after put_item(Item=item): the item replaces the one at its key.
PutItemInto(t, item) ==
    {it \in t : ~(/\ it.aggregateId = item.aggregateId
                  /\ it.eventSequence = item.eventSequence)} \cup {item}

\* put_item writing the item before the condition is evaluated.
put_item_unguarded(t, item, expected) ==
    [ok    |-> ConditionHolds(ExistingItem(t, item), expected),
     table |-> PutItemInto(t, item)]

\* put_item with the condition "the latest sequence of the stream equals
\* the expected version" in place of the condition on the item at the key.
put_item_expecting_latest(t, item, expected) ==
    LET seqs == {ParseInt(it.eventSequence) :
                    it \in Partition(t, item.aggregateId)}
        latest == IF seqs = {} THEN 0
                  ELSE CHOOSE x \in seqs : \A y \in seqs : y <= x
    IN  IF expected = <<>> \/ latest = expected[1]
        THEN [ok |-> TRUE, table |-> PutItemInto(t, item)]
        ELSE [ok |-> FALSE, table |-> t]

\* table.put_item(Item=item, ConditionExpression=...): whether the condition
\* held, and the table after the call; a failed condition writes nothing.
put_item(t, item, expected) ==
    IF ConditionHolds(ExistingItem(t, item), expected)
    THEN [ok |-> TRUE, table |-> PutItemInto(t, item)]
    ELSE [ok |-> FALSE, table |-> t]

\* ------------------------------------------------------------ events
\* Event(event_id, event_type, aggregate_id, event_data, ...).  event_data
\* is kept as what _apply_event makes of it: "valid" when Metric(...) can be
\* built from it, "no_name" for a payload whose name is empty, for which
\* Metric.validate raises ValidationError.
Event(eid, type, id, data) ==
    [event_id |-> eid, event_type |-> type, aggregate_id |-> id,
     event_data |-> data]

\* The item append_event builds for an event and a sequence number: its key
\* and the attributes get_events reads back.
MakeItem(event, sequence_number) ==
    [aggregateId   |-> event.aggregate_id,
     eventSequence |-> Pad10(sequence_number),
     eventId       |-> event.event_id,
     eventType     |-> event.event_type,
     eventData     |-> event.event_data]

\* The Event get_events builds from an item.
EventOfItem(item) ==
    Event(item.eventId, item.eventType, item.aggregateId, item.eventData)

\* _get_next_sequence_number returning 0 for an aggregate with no events.
next_sequence_from_zero(t, id) ==
    LET items == QueryLast(t, id)
    IN  IF items # <<>> THEN ParseInt(items[1].eventSequence) + 1 ELSE 0

\* _get_next_sequence_number skipping a number after the latest sequence.
next_sequence_skipping(t, id) ==
    LET items == QueryLast(t, id)
    IN  IF items # <<>> THEN ParseInt(items[1].eventSequence) + 2 ELSE 1

\* EventStore._get_next_sequence_number
_get_next_sequence_number(t, id) ==
    LET items == QueryLast(t, id)
    IN  IF items # <<>> THEN ParseInt(items[1].eventSequence) + 1 ELSE 1

\* EventStore.get_events: the list of Events of the queried items.
get_events(t, id, from_sequence) ==
    LET items == Query(t, id, IF from_sequence = <<>> THEN <<>>
                              ELSE <<Pad10(from_sequence[1])>>)
    IN  [i \in 1..Len(items) |-> EventOfItem(items[i])]

\* ------------------------------------------------------------ correlation ids
\* A correlation id is a string: <<>> for the empty string, else the list
\* of its parts.

\* CorrelationId.get returning a generated id without storing it.
CorrelationId_get_without_set(ctx, fresh) ==
    [value |-> IF ctx = <<>> THEN fresh ELSE ctx, context |-> ctx]

\* CorrelationId.get with the context variable holding ctx: the id it
\* returns and what the context variable holds afterwards.  fresh is the
\* id CorrelationId.generate() gives, a uuid4.
CorrelationId_get(ctx, fresh) ==
    IF ctx = <<>> THEN [value |-> fresh, context |-> fresh]
    ELSE [value |-> ctx, context |-> ctx]

\* Event.__post_init__, the correlation_id part: an empty correlation_id
\* is replaced by correlation_id.get().
Event__post_init__(correlation_id, ctx, fresh) ==
    IF correlation_id = <<>> THEN CorrelationId_get(ctx, fresh)
    ELSE [value |-> correlation_id, context |-> ctx]

\* ------------------------------------------------------------ exceptions
\* An exception as its handler sees it: class, error_code (of a
\* SkafuException, "" otherwise) and message, the message as the list of
\* its parts.
SkafuException(message) ==
    [type |-> "SkafuException", error_code |-> "SKAFU_ERROR",
     message |-> message]

ValidationError(message) ==
    [type |-> "ValidationError", error_code |-> "VALIDATION_ERROR",
     message |-> message]

\* str(e) of a botocore ClientError.
ClientErrorText == "ClientError"

\* append_event, ConditionalCheckFailedException caught.
ConcurrencyConflict(id) ==
    SkafuException(<<"Concurrency conflict for aggregate ", id>>)

\* append_event, any other ClientError of put_item caught.
AppendFailed == SkafuException(<<"Failed to append event: ", ClientErrorText>>)

\* _get_next_sequence_number, ClientError caught; append_event lets it pass.
SequenceFailed ==
    SkafuException(<<"Failed to get sequence number: ", ClientErrorText>>)

\* get_events, ClientError caught.
GetEventsFailed(id) ==
    SkafuException(<<"Failed to get events for aggregate ", id, ": ",
                     ClientErrorText>>)

\* from_history on an empty list.
EmptyHistory ==
    SkafuException(<<"Cannot reconstruct aggregate from empty event history">>)

\* Metric.validate on a metric without a name.
NameRequired == ValidationError(<<"Metric name is required">>)

\* aws_lambda_powertools BadRequestError: not a SkafuException.
BadRequestError(message) ==
    [type |-> "BadRequestError", error_code |-> "", message |-> message]

\* collect_metric, a required field missing from the request body.
MissingField == BadRequestError(<<"Missing required field: ", "name">>)

\* publish_event: a failed entry in the response, or a ClientError caught.
PublishFailed(text) == SkafuException(<<"Failed to publish event: ", text>>)

\* Alert.validate on an alert without a name.
AlertNameRequired == ValidationError(<<"Alert name is required">>)

\* trigger_alert: no alert with the id, or the alert is not active.
AlertNotFound(alert_id) == SkafuException(<<"Alert ", alert_id, " not found">>)

AlertNotActive(alert_id) ==
    SkafuException(<<"Alert ", alert_id, " is not active">>)

\* EventHandler._handle_event_impl of the base class.
NotImplemented ==
    [type |-> "NotImplementedError", error_code |-> "",
     message |-> <<"Subclasses must implement _handle_event_impl">>]

\* Repository.save: except Exception as e, re-raised as SkafuException.
SaveFailed(e) == SkafuException(<<"Failed to save aggregate: ">> \o e.message)

\* Repository.get_by_id: except Exception as e, re-raised as SkafuException.
GetFailed(e) == SkafuException(<<"Failed to get aggregate: ">> \o e.message)

\* ------------------------------------------------------------ aggregates
\* MetricAggregate(id=...): BaseModel.version defaults to 1, _version to 0.
\* metrics_created_at lists, metric by metric, the created_at and updated_at
\* of the Metric objects in metrics.
NewAggregate(id) ==
    [id |-> id, version |-> 1, _version |-> 0, metrics |-> <<>>,
     metrics_created_at |-> <<>>, _uncommitted_events |-> <<>>]

\* _apply_event appending a metric for an event of any type.
_apply_event_any_type(a, event) ==
    [a EXCEPT !.metrics = Append(@, event.event_id),
              !.metrics_created_at = Append(@, clock)]

\* MetricAggregate._apply_event: a MetricCollected event appends its metric;
\* any other type changes nothing.  A metric is named by its event's id:
\* Metric(...) takes its id, name, value, unit, tags, timestamp and source
\* from event_data, and its created_at and updated_at, which the call does
\* not pass, from the field defaults, datetime.utcnow() at construction.
_apply_event(a, event) ==
    IF event.event_type = "MetricCollected"
    THEN [a EXCEPT !.metrics = Append(@, event.event_id),
                   !.metrics_created_at = Append(@, clock)]
    ELSE a

\* MetricAggregate._apply_event raises on this event: Metric(...) is built,
\* and validated, only for a MetricCollected event.
Raises(event) ==
    event.event_type = "MetricCollected" /\ event.event_data # "valid"

\* apply_event recording the event it applies among the uncommitted events.
apply_event_recording(a, event) ==
    IF Raises(event) THEN a
    ELSE LET b == _apply_event(a, event)
         IN  [b EXCEPT !._version = @ + 1,
                       !._uncommitted_events = Append(@, event)]

\* AggregateRoot.apply_event: the aggregate after the call.  When
\* _apply_event raises, the exception leaves apply_event before the metric
\* is appended and before _version is incremented.
apply_event(a, event) ==
    IF Raises(event) THEN a
    ELSE LET b == _apply_event(a, event)
         IN  [b EXCEPT !._version = @ + 1]

\* AggregateRoot.raise_event: the aggregate after the call, the event
\* appended to _uncommitted_events before apply_event runs.
raise_event(a, eid, type, data) ==
    LET event == Event(eid, type, a.id, data)
    IN  apply_event([a EXCEPT !._uncommitted_events = Append(@, event)], event)

\* mark_events_as_committed resetting the version counter as well.
mark_events_resetting_version(a) ==
    [a EXCEPT !._uncommitted_events = <<>>, !._version = 0]

\* AggregateRoot.mark_events_as_committed
mark_events_as_committed(a) == [a EXCEPT !._uncommitted_events = <<>>]

RECURSIVE ApplyAll(_, _)
ApplyAll(a, events) ==
    IF events = <<>> THEN a
    ELSE ApplyAll(apply_event(a, Head(events)), Tail(events))

\* AggregateRoot.from_history raises: on an empty list, or when applying one
\* of the events raises.
FromHistoryRaises(events) ==
    events = <<>> \/ \E i \in DOMAIN events : Raises(events[i])

\* from_history failing on an empty list at events[0], with an IndexError.
from_history_error_unchecked(events) ==
    IF events = <<>>
    THEN [type |-> "IndexError", error_code |-> "",
          message |-> <<"list index out of range">>]
    ELSE NameRequired

\* The exception from_history raises when it raises.
from_history_error(events) ==
    IF events = <<>> THEN EmptyHistory ELSE NameRequired

\* AggregateRoot.from_history, for a list of events on which it does not
\* raise: the aggregate it returns.
from_history(events) ==
    LET a == [NewAggregate("uuid") EXCEPT !.id = events[1].aggregate_id]
    IN  mark_events_as_committed(ApplyAll(a, events))

\* get_by_id treating a stream of one event as no history.
get_by_id_needing_two(t, id) ==
    LET events == get_events(t, id, <<>>)
    IN  IF Len(events) <= 1 THEN <<>> ELSE <<from_history(events)>>

\* Repository.get_by_id, when get_events raises nothing: None (<<>>) for an
\* empty list, else the aggregate from_history builds.
get_by_id(t, id) ==
    LET events == get_events(t, id, <<>>)
    IN  IF events = <<>> THEN <<>> ELSE <<from_history(events)>>

\* ------------------------------------------------------------ domain operations
\* collect_metric raising the event before it validates the metric.
collect_metric_validating_late(a, eid, metric) ==
    raise_event(a, eid, "MetricCollected", metric)

\* MetricAggregate.collect_metric: the aggregate after the call.
\* metric.validate() comes first; when it raises nothing else has run.
collect_metric(a, eid, metric) ==
    IF metric # "valid" THEN a
    ELSE raise_event(a, eid, "MetricCollected", metric)

\* The exception collect_metric raises (<<>> if none).
collect_metric_error(metric) ==
    IF metric # "valid" THEN <<NameRequired>> ELSE <<>>

\* The Alert objects callers pass: an id, whether the alert is active, and
\* a name, empty for an alert Alert.validate rejects.
AlertIds == {"x", "y"}

Alerts ==
    [id : AlertIds, is_active : BOOLEAN, name : {"cpu", ""}]

\* AlertAggregate(id=...): as MetricAggregate, with the list of alerts.
NewAlertAggregate(id) ==
    [id |-> id, version |-> 1, _version |-> 0, alerts |-> <<>>,
     _uncommitted_events |-> <<>>]

\* AlertAggregate._apply_event raises: Alert(...) is built, and validated,
\* for an AlertCreated event.
AlertRaises(event) ==
    event.event_type = "AlertCreated" /\ event.event_data.name = ""

\* AlertAggregate._apply_event: AlertCreated appends the alert built from
\* event_data; AlertTriggered changes nothing.
AlertAggregate_apply_event(a, event) ==
    IF event.event_type = "AlertCreated"
    THEN [a EXCEPT !.alerts = Append(@, event.event_data)]
    ELSE a

\* AggregateRoot.raise_event on an AlertAggregate: the event is appended to
\* _uncommitted_events, then applied, then _version is incremented.
alert_raise_event(a, eid, type, data) ==
    LET event == Event(eid, type, a.id, data)
        b == [a EXCEPT !._uncommitted_events = Append(@, event)]
    IN  IF AlertRaises(event) THEN b
        ELSE [AlertAggregate_apply_event(b, event) EXCEPT !._version = @ + 1]

\* AlertAggregate.create_alert: the aggregate after the call.
create_alert(a, eid, alert) ==
    IF alert.name = "" THEN a
    ELSE alert_raise_event(a, eid, "AlertCreated", alert)

\* The exception create_alert raises (<<>> if none).
create_alert_error(alert) ==
    IF alert.name = "" THEN <<AlertNameRequired>> ELSE <<>>

\* AlertAggregate._find_alert: the first alert with the id, <<>> for None.
_find_alert(a, alert_id) ==
    LET found == SelectSeq(a.alerts, LAMBDA x : x.id = alert_id)
    IN  IF found = <<>> THEN <<>> ELSE <<found[1]>>

\* The exception trigger_alert raises (<<>> if none).
trigger_alert_error(a, alert_id) ==
    LET alert == _find_alert(a, alert_id)
    IN  IF alert = <<>> THEN <<AlertNotFound(alert_id)>>
        ELSE IF ~alert[1].is_active THEN <<AlertNotActive(alert_id)>>
        ELSE <<>>

\* AlertAggregate.trigger_alert: the aggregate after the call.
trigger_alert(a, eid, alert_id) ==
    IF trigger_alert_error(a, alert_id) # <<>> THEN a
    ELSE alert_raise_event(a, eid, "AlertTriggered",
                           [id |-> alert_id, is_active |-> TRUE,
                            name |-> "triggered"])

\* ------------------------------------------------------------ publisher
\* The entry publish_event puts on the event bus.
EventEntry(event, source) ==
    [Source |-> source, DetailType |-> event.event_type, Detail |-> event,
     Resources |-> <<event.aggregate_id>>]

\* The put_events call publish_error makes on the error bus; delivered is
\* FALSE when that call raises a ClientError, which publish_error logs and
\* swallows.
ErrorEntry(error, context, delivered) ==
    [Source |-> "skafu.error", DetailType |-> "Error Occurred",
     error_type |-> error.type, error_message |-> error.message,
     context |-> context, delivered |-> delivered]

\* EventPublisher.publish_error: the bus after the call.
publish_error(b, error, context, delivered) ==
    [b EXCEPT !.errors = @ \cup {ErrorEntry(error, context, delivered)}]

\* EventPublisher._publish_error: the bus after the call.
_publish_error(b, original_event, error_message, delivered) ==
    publish_error(b, PublishFailed(error_message),
                  [original_event_id |-> original_event.event_id,
                   original_event_type |-> original_event.event_type,
                   aggregate_id |-> original_event.aggregate_id,
                   error_message |-> error_message],
                  delivered)

\* The outcomes of put_events on the event bus: the entry is accepted, the
\* response counts it as failed, or the call raises a ClientError.
PutEventsOutcomes == {"ok", "failed_entry", "error"}

\* EventPublisher.publish_event: the bus after the call.  A failed entry
\* raises SkafuException inside the try block, which except ClientError
\* does not catch; only a ClientError reaches _publish_error.
publish_event(b, event, source, outcome, delivered) ==
    CASE outcome = "ok" ->
            [b EXCEPT !.events = @ \cup {EventEntry(event, source)}]
      [] outcome = "failed_entry" -> b
      [] outcome = "error" ->
            _publish_error(b, event, ClientErrorText, delivered)

\* The exception publish_event raises for an outcome other than "ok".
publish_event_error(outcome) ==
    IF outcome = "failed_entry" THEN PublishFailed("Unknown error")
    ELSE PublishFailed(ClientErrorText)

\* publish_event deleting the event's record from the table when the
\* publication fails.
table_after_publish_rolling_back(t, event, outcome) ==
    IF outcome = "ok" THEN t ELSE {it \in t : it.eventId # event.event_id}

\* The table after publish_event: EventPublisher holds the EventBridge
\* client and no table, whatever the outcome.
table_after_publish(t, event, outcome) == t

\* ------------------------------------------------------------ event handler
\* The context handle_event gives publish_error.
HandlerContext(event, handler) ==
    [event_id |-> event.event_id, event_type |-> event.event_type,
     aggregate_id |-> event.aggregate_id, handler |-> handler]

\* handle_event reporting nothing to the error bus.
handle_event_reports_nothing(event, handler, impl, delivered) == <<>>

\* EventHandler.handle_event: the put_events calls it makes on the error
\* bus, in order.  impl is <<>> when _handle_event_impl returns and <<e>>
\* when it raises e; the except clause calls publish_error once.
handle_event_reports(event, handler, impl, delivered) ==
    IF impl = <<>> THEN <<>>
    ELSE <<ErrorEntry(impl[1], HandlerContext(event, handler), delivered)>>

\* The exception handle_event leaves with (<<>> if none): the bare raise
\* re-raises the exception caught; publish_error has swallowed the
\* ClientError of an error bus that could not be reached.
handle_event_error(impl, delivered) == impl

\* ------------------------------------------------------------ initial state
\* A stream of n events of aggregate id, as n sequential appends leave it.
InitStream(id, n) ==
    {MakeItem(Event(<<0, i>>, "MetricCollected", id, "valid"), i) : i \in 1..n}

NoOp == [kind |-> "none", id |-> "a", batch |-> <<>>, i |-> 0,
         expected |-> <<>>, seq |-> 0]

\* The state after construction, with a stream of n events for some n in
\* lengths.
InitWith(lengths) ==
    /\ \E n \in lengths :
          /\ table = InitStream("a", n)
          /\ nextId = [c \in Callers |-> 0]
          /\ acked = [id \in AggregateIds |-> IF id = "a" THEN n ELSE 0]
    /\ pc = [c \in Callers |-> "idle"]
    /\ agg = [c \in Callers |-> <<>>]
    /\ op = [c \in Callers |-> NoOp]
    /\ work = [c \in Callers |-> [stage |-> "start", log |-> <<>>]]
    /\ ret = [caller |-> 0, call |-> "none", outcome |-> "none", id |-> "a",
              from |-> <<>>, value |-> <<>>, exc |-> <<>>]
    /\ clock = 0
    /\ bus = [events |-> {}, errors |-> {}]
    /\ current_id = [c \in Callers |-> <<>>]

\* The stream is empty or holds MaxInit events when the callers start.
Init == InitWith({0, MaxInit})

\* ------------------------------------------------------------ operations
\* Largest sequence number a stream reaches in Spec and SpecStore.
MaxSeq == MaxInit + MaxRaise

\* The sequence numbers stored for an aggregate, as integers.
StoredSequences(t, id) ==
    {ParseInt(it.eventSequence) : it \in Partition(t, id)}

\* The latest persisted sequence of an aggregate, 0 when it has no events.
latestSequence(t, id) ==
    IF Partition(t, id) = {} THEN 0
    ELSE CHOOSE s \in StoredSequences(t, id) :
             \A r \in StoredSequences(t, id) : r <= s

\* The expected_version arguments callers pass for an aggregate: None, or
\* a number below, at or above its latest sequence at the time of the call.
ExpectedVersions(id) ==
    LET L == latestSequence(table, id)
    IN  {<<>>} \cup {<<v>> : v \in {u \in {L - 1, L, L + 1} : u >= 0}}

\* The from_sequence arguments callers pass: None, or a number up to just
\* past the end of the stream.
FromSequences(id) ==
    {<<>>} \cup {<<k>> : k \in 0..(latestSequence(table, id) + 1)}

RECURSIVE Sum(_, _)
Sum(f, S) == IF S = {} THEN 0
             ELSE LET x == CHOOSE y \in S : TRUE IN f[x] + Sum(f, S \ {x})

\* uuid.uuid4() in caller c: a value no other draw gives.
uuid4(c) == <<c, nextId[c] + 1>>

\* Fewer than MaxRaise events have been created since the start.
CanDraw == Sum(nextId, Callers) < MaxRaise

\* No stream is longer than MaxSeq.
WithinCap(t) == \A id \in AggregateIds : Cardinality(Partition(t, id)) <= MaxSeq

\* No call returned in the step just taken.
NoRet == [caller |-> 0, call |-> "none", outcome |-> "none", id |-> "a",
          from |-> <<>>, value |-> <<>>, exc |-> <<>>]

\* The return of a call of caller c: its name, outcome and arguments, and
\* the value it returned (the event list of get_events, else <<>>).
Ret(c, call, outcome, id) ==
    [NoRet EXCEPT !.caller = c, !.call = call, !.outcome = outcome, !.id = id]

\* A call returning normally where the code raises: the exception is logged
\* and swallowed.
Return_swallowing(c, call, outcome, id, e) == Ret(c, call, outcome, id)

\* A call of caller c left by exception e.  outcome records what happened
\* at the table; exc is all the caller has to go by.
Raise(c, call, outcome, id, e) ==
    [Ret(c, call, outcome, id) EXCEPT !.exc = <<e>>]

\* Caller c is back in its own code after a call.
Idle(c) ==
    /\ pc' = [pc EXCEPT ![c] = "idle"]
    /\ op' = [op EXCEPT ![c] = NoOp]

\* Repository.get_by_id: one get_events query, then from_history.
GetById(c, id) ==
    /\ pc[c] = "idle"
    /\ \/ /\ ret' = Raise(c, "get_by_id", "error", id,
                           GetFailed(GetEventsFailed(id)))
          /\ UNCHANGED agg
       \/ LET events == get_events(table, id, <<>>)
          IN  IF events # <<>> /\ FromHistoryRaises(events)
              THEN /\ ret' = Raise(c, "get_by_id", "raised", id,
                                   GetFailed(from_history_error(events)))
                   /\ UNCHANGED agg
              ELSE /\ agg' = [agg EXCEPT ![c] = get_by_id(table, id)]
                   /\ ret' = Ret(c, "get_by_id", "ok", id)
    /\ UNCHANGED <<table, nextId, pc, op, acked, clock, bus, current_id>>

\* MetricAggregate(id=aggregate_id): a fresh aggregate handle.
Create(c, id) ==
    /\ pc[c] = "idle"
    /\ agg' = [agg EXCEPT ![c] = <<NewAggregate(id)>>]
    /\ ret' = Ret(c, "create", "ok", id)
    /\ UNCHANGED <<table, nextId, pc, op, acked, clock, bus, current_id>>

\* aggregate.raise_event(event_type, ...): uuid4 gives the event its id.
RaiseEvent(c, type, data) ==
    /\ pc[c] = "idle"
    /\ agg[c] # <<>>
    /\ agg' = [agg EXCEPT
                 ![c] = <<raise_event(agg[c][1], uuid4(c), type, data)>>]
    /\ nextId' = [nextId EXCEPT ![c] = @ + 1]
    /\ LET event == Event(uuid4(c), type, agg[c][1].id, data)
       IN  ret' = [(IF Raises(event)
                    THEN Raise(c, "raise_event", "raised", event.aggregate_id,
                               NameRequired)
                    ELSE Ret(c, "raise_event", "ok", event.aggregate_id))
                   EXCEPT !.value = <<event>>]
    /\ UNCHANGED <<table, pc, op, acked, clock, bus, current_id>>

\* aggregate.apply_event(event) called directly with an event.
ApplyEvent(c, event) ==
    /\ pc[c] = "idle"
    /\ agg[c] # <<>>
    /\ agg' = [agg EXCEPT ![c] = <<apply_event(agg[c][1], event)>>]
    /\ ret' = [(IF Raises(event)
                THEN Raise(c, "apply_event", "raised", agg[c][1].id,
                           NameRequired)
                ELSE Ret(c, "apply_event", "ok", agg[c][1].id))
               EXCEPT !.value = <<event>>]
    /\ UNCHANGED <<table, nextId, pc, op, acked, clock, bus, current_id>>

\* MetricAggregate.from_history(events) called directly; the caller keeps
\* the handle it had when the call raises.
FromHistory(c, events) ==
    /\ pc[c] = "idle"
    /\ IF FromHistoryRaises(events)
       THEN /\ ret' = [Raise(c, "from_history", "raised", "a",
                             from_history_error(events))
                       EXCEPT !.value = events]
            /\ UNCHANGED agg
       ELSE /\ agg' = [agg EXCEPT ![c] = <<from_history(events)>>]
            /\ ret' = [Ret(c, "from_history", "ok", events[1].aggregate_id)
                       EXCEPT !.value = events]
    /\ UNCHANGED <<table, nextId, pc, op, acked, clock, bus, current_id>>

\* aggregate.mark_events_as_committed() called on the handle.
MarkEventsAsCommitted(c) ==
    /\ pc[c] = "idle"
    /\ agg[c] # <<>>
    /\ agg' = [agg EXCEPT ![c] = <<mark_events_as_committed(agg[c][1])>>]
    /\ ret' = Ret(c, "mark_events_as_committed", "ok", agg[c][1].id)
    /\ UNCHANGED <<table, nextId, pc, op, acked, clock, bus, current_id>>

\* Repository.save(aggregate, expected_version): the loop runs over a copy of
\* the uncommitted events; with none to append it only marks them committed.
Save(c, expected) ==
    /\ pc[c] = "idle"
    /\ agg[c] # <<>>
    /\ LET batch == agg[c][1]._uncommitted_events
       IN  IF batch = <<>>
           THEN /\ agg' = [agg EXCEPT
                             ![c] = <<mark_events_as_committed(agg[c][1])>>]
                /\ ret' = Ret(c, "save", "ok", agg[c][1].id)
                /\ UNCHANGED <<pc, op>>
           ELSE /\ op' = [op EXCEPT ![c] =
                           [NoOp EXCEPT !.kind = "save", !.id = agg[c][1].id,
                                        !.batch = batch, !.i = 1,
                                        !.expected = expected]]
                /\ pc' = [pc EXCEPT ![c] = "seq"]
                /\ ret' = NoRet
                /\ UNCHANGED agg
    /\ UNCHANGED <<table, nextId, acked, clock, bus, current_id>>

\* EventStore.append_event(event, expected_version) called directly with a
\* newly constructed Event.
AppendEvent(c, id, type, expected) ==
    /\ pc[c] = "idle"
    /\ nextId' = [nextId EXCEPT ![c] = @ + 1]
    /\ op' = [op EXCEPT ![c] =
                [NoOp EXCEPT !.kind = "append_event", !.id = id,
                             !.batch = <<Event(uuid4(c), type, id, "valid")>>,
                             !.i = 1,
                             !.expected = expected]]
    /\ pc' = [pc EXCEPT ![c] = "seq"]
    /\ ret' = NoRet
    /\ UNCHANGED <<table, agg, acked, clock, bus, current_id>>

\* save leaving its loop with the first i - 1 events stored, dropping them
\* from the aggregate's uncommitted events.
after_failed_save_dropping_stored(a, i) ==
    [a EXCEPT !._uncommitted_events = SubSeq(@, i, Len(@))]

\* Repository.save left by the exception of the append of its i-th event:
\* the loop runs over the copy the uncommitted_events property returns, and
\* the except clause logs and raises; the aggregate stays as it was.
after_failed_save(a, i) == a

\* The handle of caller c after the call it is in has failed.
HandleAfterFailure(c) ==
    IF op[c].kind = "save" THEN <<after_failed_save(agg[c][1], op[c].i)>>
    ELSE agg[c]

\* The return of the save or append_event call caller c is in.
OpRet(c, outcome) == Ret(c, op[c].kind, outcome, op[c].id)

\* The save or append_event call caller c is in is left by exception e of
\* append_event, which save wraps.
OpRaise(c, outcome, e) ==
    Raise(c, op[c].kind, outcome, op[c].id,
          IF op[c].kind = "save" THEN SaveFailed(e) ELSE e)

\* append_event, first table call: _get_next_sequence_number.
GetNextSeq(c) ==
    /\ pc[c] = "seq"
    /\ \/ /\ ret' = OpRaise(c, "error", SequenceFailed)
          /\ agg' = [agg EXCEPT ![c] = HandleAfterFailure(c)]
          /\ Idle(c)
       \/ /\ op' = [op EXCEPT
                      ![c].seq = _get_next_sequence_number(table, op[c].id)]
          /\ pc' = [pc EXCEPT ![c] = "put"]
          /\ ret' = NoRet
          /\ UNCHANGED agg
    /\ UNCHANGED <<table, nextId, acked, clock, bus, current_id>>

\* append_event, second table call: put_item with the condition.  After the
\* last event of a save the aggregate's events are marked committed.
PutItem(c) ==
    /\ pc[c] = "put"
    /\ LET o == op[c]
           item == MakeItem(o.batch[o.i], o.seq)
           put == put_item(table, item, o.expected)
       IN  \/ /\ ret' = OpRaise(c, "error", AppendFailed)
              /\ agg' = [agg EXCEPT ![c] = HandleAfterFailure(c)]
              /\ Idle(c)
              /\ UNCHANGED <<table, acked>>
           \/ /\ ~put.ok
              /\ table' = put.table
              /\ ret' = OpRaise(c, "conflict", ConcurrencyConflict(o.id))
              /\ agg' = [agg EXCEPT ![c] = HandleAfterFailure(c)]
              /\ Idle(c)
              /\ UNCHANGED acked
           \/ /\ put.ok
              /\ table' = put.table
              /\ acked' = [acked EXCEPT ![o.id] = @ + 1]
              /\ IF o.i < Len(o.batch)
                 THEN /\ op' = [op EXCEPT ![c].i = @ + 1]
                      /\ pc' = [pc EXCEPT ![c] = "seq"]
                      /\ ret' = NoRet
                      /\ UNCHANGED agg
                 ELSE /\ agg' = [agg EXCEPT ![c] =
                                   IF o.kind = "save"
                                   THEN <<mark_events_as_committed(agg[c][1])>>
                                   ELSE @]
                      /\ ret' = OpRet(c, "ok")
                      /\ Idle(c)
    /\ UNCHANGED <<nextId, clock, bus, current_id>>

\* EventStore.get_events(aggregate_id, from_sequence) called directly.
GetEvents(c, id, from_sequence) ==
    /\ pc[c] = "idle"
    /\ \/ ret' = [Raise(c, "get_events", "error", id, GetEventsFailed(id))
                    EXCEPT !.from = from_sequence]
       \/ ret' = [Ret(c, "get_events", "ok", id)
                    EXCEPT !.from = from_sequence,
                           !.value = get_events(table, id, from_sequence)]
    /\ UNCHANGED <<table, nextId, pc, agg, op, acked, clock, bus, current_id>>

\* event_publisher.publish_event(event, source)
PublishEvent(c, event, source) ==
    /\ pc[c] = "idle"
    /\ \E outcome \in PutEventsOutcomes, delivered \in BOOLEAN :
          /\ outcome # "error" => delivered
          /\ bus' = publish_event(bus, event, source, outcome, delivered)
          /\ table' = table_after_publish(table, event, outcome)
          /\ ret' = [(IF outcome = "ok"
                      THEN Ret(c, "publish_event", "ok", event.aggregate_id)
                      ELSE Raise(c, "publish_event", outcome,
                                 event.aggregate_id,
                                 publish_event_error(outcome)))
                     EXCEPT !.value = <<event>>]
    /\ UNCHANGED <<nextId, pc, agg, op, acked, clock, current_id>>

\* ------------------------------------------------------------ Spec
\* The two table calls of an append_event in progress (inside save or
\* called directly).
SeqStep(c) == GetNextSeq(c) /\ UNCHANGED work

PutStep(c) == PutItem(c) /\ WithinCap(table') /\ UNCHANGED work

\* The calls a caller makes on the repository and on its aggregate handle.
LoadCall(c) == (\E id \in SharedIds : GetById(c, id)) /\ UNCHANGED work

CreateCall(c) == (\E id \in SharedIds : Create(c, id)) /\ UNCHANGED work

RaiseCall(c) ==
    /\ CanDraw
    /\ \E type \in EventTypes : RaiseEvent(c, type, "valid")
    /\ UNCHANGED work

SaveCall(c) ==
    /\ agg[c] # <<>>
    /\ \E expected \in ExpectedVersions(agg[c][1].id) : Save(c, expected)
    /\ UNCHANGED work

\* Callers use the repository freely.
Next ==
    \E c \in Callers :
       \/ LoadCall(c)
       \/ CreateCall(c)
       \/ RaiseCall(c)
       \/ SaveCall(c)
       \/ SeqStep(c)
       \/ PutStep(c)

Spec == Init /\ [][Next]_vars

\* ------------------------------------------------------------ SpecStore
\* The calls a caller makes on the EventStore directly.
AppendCall(c) ==
    /\ CanDraw
    /\ \E id \in AggregateIds, type \in EventTypes :
          \E expected \in ExpectedVersions(id) :
             AppendEvent(c, id, type, expected)
    /\ UNCHANGED work

ReadCall(c) ==
    /\ \E id \in AggregateIds :
          \E k \in FromSequences(id) : GetEvents(c, id, k)
    /\ UNCHANGED work

\* Callers use the EventStore alone: append_event and get_events.
NextStore ==
    \E c \in Callers :
       \/ AppendCall(c)
       \/ ReadCall(c)
       \/ SeqStep(c)
       \/ PutStep(c)

SpecStore == Init /\ [][NextStore]_vars

\* ------------------------------------------------------------ SpecWork
\* Each caller runs units of work on aggregate "a" as collect_metric does:
\* get_by_id, a fresh aggregate if there is none, some raise_event calls,
\* then save, either without an expected version or with the version the
\* aggregate had when loaded.  After a save that failed it reloads and
\* redoes the work.  work[c].log lists its save calls: the expected version
\* passed, the number of events in the batch, and the outcome.

\* The version of the handle before its uncommitted events were raised.
LoadedVersion(a) == a._version - Len(a._uncommitted_events)

WLoad(c) ==
    /\ work[c].stage \in {"start", "lost", "failed"}
    /\ GetById(c, "a")
    /\ work' = [work EXCEPT ![c].stage =
                  IF ret'.outcome # "ok" THEN "gaveup"
                  ELSE IF agg'[c] = <<>> THEN "absent" ELSE "loaded"]

WCreate(c) ==
    /\ work[c].stage = "absent"
    /\ Create(c, "a")
    /\ work' = [work EXCEPT ![c].stage = "loaded"]

WRaise(c) ==
    /\ work[c].stage = "loaded"
    /\ Sum(nextId, Callers) < MaxWork
    /\ \E type \in EventTypes : RaiseEvent(c, type, "valid")
    /\ UNCHANGED work

WSave(c) ==
    /\ work[c].stage = "loaded"
    /\ agg[c][1]._uncommitted_events # <<>>
    /\ \E expected \in {<<>>, <<LoadedVersion(agg[c][1])>>} :
          /\ Save(c, expected)
          /\ work' = [work EXCEPT
                        ![c].stage = "saving",
                        ![c].log = Append(@,
                            [expected |-> expected,
                             k |-> Len(agg[c][1]._uncommitted_events),
                             outcome |-> "pending"])]

WStep(c) ==
    /\ work[c].stage = "saving"
    /\ GetNextSeq(c) \/ PutItem(c)
    /\ work' = IF ret'.caller = c
               THEN [work EXCEPT
                       ![c].stage = CASE ret'.outcome = "ok" -> "done"
                                      [] ret'.outcome = "conflict" -> "lost"
                                      [] OTHER -> "failed",
                       ![c].log[Len(work[c].log)].outcome = ret'.outcome]
               ELSE work

NextWork ==
    \E c \in Callers :
        WLoad(c) \/ WCreate(c) \/ WRaise(c) \/ WSave(c) \/ WStep(c)

\* The stream is empty or holds MaxLoaded events when the callers start.
InitWork == InitWith({0, MaxLoaded})

SpecWork == InitWork /\ [][NextWork]_vars

\* ------------------------------------------------------------ SpecAgg
\* One caller works on an aggregate handle in memory, with no store: it
\* first obtains the handle, constructing a MetricAggregate or rebuilding
\* one with from_history, then raises events on it and applies events to
\* it, with recognized and unrecognized types and valid and invalid
\* payloads.  work[c].log lists the events
\* handed to the current handle, each with the call that handed it over.
Tester == 1

\* The lists of events from_history is called with: up to MaxHistory events
\* of any type, payload and aggregate id.
RECURSIVE Histories(_)
Histories(n) ==
    IF n = 0 THEN {<<>>}
    ELSE LET shorter == Histories(n - 1)
         IN  shorter \cup
             {Append(h, Event(<<0, Len(h) + 1>>, type, id, data)) :
                 h \in {x \in shorter : Len(x) = n - 1},
                 type \in AllEventTypes, id \in AggregateIds,
                 data \in EventData}

Handed(event, via) == [event |-> event, via |-> via]

ANew(c) ==
    /\ agg[c] = <<>>
    /\ ret.call = "none"
    /\ \E id \in AggregateIds : Create(c, id)
    /\ work' = [work EXCEPT ![c].log = <<>>]

AFromHistory(c) ==
    /\ agg[c] = <<>>
    /\ ret.call = "none"
    /\ \E events \in Histories(MaxHistory) :
          /\ FromHistory(c, events)
          /\ work' = IF ret'.outcome = "ok"
                     THEN [work EXCEPT ![c].log =
                             [i \in DOMAIN events |->
                                 Handed(events[i], "from_history")]]
                     ELSE work

ARaise(c) ==
    /\ Len(work[c].log) < MaxEvents
    /\ nextId[c] < MaxEvents
    /\ \E type \in AllEventTypes, data \in EventData :
          RaiseEvent(c, type, data)
    /\ work' = [work EXCEPT ![c].log =
                  Append(@, Handed(ret'.value[1], "raise_event"))]

AApply(c) ==
    /\ Len(work[c].log) < MaxEvents
    /\ agg[c] # <<>>
    /\ \E type \in AllEventTypes, data \in EventData :
          ApplyEvent(c, Event(<<0, Len(work[c].log) + 1>>, type,
                              agg[c][1].id, data))
    /\ work' = [work EXCEPT ![c].log =
                  Append(@, Handed(ret'.value[1], "apply_event"))]

\* mark_events_as_committed on the handle, whether or not it holds
\* uncommitted events.
AMark(c) == MarkEventsAsCommitted(c) /\ UNCHANGED work

NextAgg ==
    \/ ANew(Tester)
    \/ AFromHistory(Tester)
    \/ ARaise(Tester)
    \/ AApply(Tester)
    \/ AMark(Tester)

InitAgg == InitWith({0})

SpecAgg == InitAgg /\ [][NextAgg]_vars

\* ------------------------------------------------------------ SpecReplay
\* The stream of "a" holds MaxReplay events and is not written.  Each caller
\* obtains a handle once, from get_by_id or by constructing a fresh
\* MetricAggregate, and applies events to it directly: the events of the
\* stream or an event of a type the aggregate does not recognize.  Time
\* passes between the calls.  work[c].log lists the events applied to the
\* handle of c, each with the call that applied it.

\* Time passes: datetime.utcnow() returns a later reading from now on.
Tick ==
    /\ clock < MaxClock
    /\ clock' = clock + 1
    /\ ret' = NoRet
    /\ UNCHANGED <<table, nextId, pc, agg, op, acked, work, bus, current_id>>

\* The events callers apply directly.
ReplayEvents ==
    {EventOfItem(it) : it \in Partition(table, "a")}
       \cup {Event(<<0, 0>>, "MetricArchived", "a", "valid")}

RLoad(c) ==
    /\ agg[c] = <<>>
    /\ work[c].stage = "start"
    /\ GetById(c, "a")
    /\ work' = [work EXCEPT
                  ![c].stage = "loaded",
                  ![c].log = IF ret'.outcome = "ok"
                             THEN LET events == get_events(table, "a", <<>>)
                                  IN  [i \in DOMAIN events |->
                                          Handed(events[i], "from_history")]
                             ELSE @]

RNew(c) ==
    /\ agg[c] = <<>>
    /\ work[c].stage = "start"
    /\ Create(c, "a")
    /\ work' = [work EXCEPT ![c].stage = "fresh"]

RApply(c) ==
    /\ work[c].stage = "fresh"
    /\ Len(work[c].log) < MaxReplay
    /\ \E event \in ReplayEvents : ApplyEvent(c, event)
    /\ work' = [work EXCEPT ![c].log =
                  Append(@, Handed(ret'.value[1], "apply_event"))]

NextReplay ==
    \/ \E c \in Callers : RLoad(c) \/ RNew(c) \/ RApply(c)
    \/ Tick

InitReplay == InitWith({MaxReplay})

SpecReplay == InitReplay /\ [][NextReplay]_vars

\* ------------------------------------------------------------ SpecKeys
\* The key format alone.  Python integers are unbounded, so a sequence
\* number is kept here as str(n), its decimal digits, and compared as a
\* number.  Each caller formats sequence numbers as append_event formats
\* the one it was assigned and as get_events formats its from_sequence
\* bound; work[c].log lists the numbers caller c formatted with their keys.

\* f"{n:010d}" for the number whose decimal digits are d.
FormatDecimal(d) == ZeroFill(d, Width)

\* 10^w - 1 and 10^w in decimal digits.
Nines(w) == [i \in 1..w |-> 9]

PowerOfTen(w) == <<1>> \o [i \in 1..w |-> 0]

\* The sequence numbers formatted: the first ones, and the last number of
\* each length with its successor, the first of the next length.
SequenceSamples ==
    {<<0>>, <<1>>, <<2>>}
       \cup {Nines(w) : w \in 1..(MaxDigits - 1)}
       \cup {PowerOfTen(w) : w \in 1..(MaxDigits - 1)}

Formatted010d(d, via) == [n |-> d, key |-> FormatDecimal(d), via |-> via]

\* append_event formats the sequence number it was assigned.
KeyOfSequence(c) ==
    /\ Len(work[c].log) < MaxKeys
    /\ \E d \in SequenceSamples \ {<<0>>} :
          /\ work' = [work EXCEPT ![c].log =
                        Append(@, Formatted010d(d, "append_event"))]
          /\ ret' = [Ret(c, "format", "ok", "a") EXCEPT
                       !.value = <<FormatDecimal(d)>>]
    /\ UNCHANGED <<table, nextId, pc, agg, op, acked, clock, bus, current_id>>

\* get_events formats its from_sequence argument.
KeyOfBound(c) ==
    /\ Len(work[c].log) < MaxKeys
    /\ \E d \in SequenceSamples :
          /\ work' = [work EXCEPT ![c].log =
                        Append(@, Formatted010d(d, "get_events"))]
          /\ ret' = [Ret(c, "format", "ok", "a") EXCEPT
                       !.value = <<FormatDecimal(d)>>]
    /\ UNCHANGED <<table, nextId, pc, agg, op, acked, clock, bus, current_id>>

NextKeys == \E c \in Callers : KeyOfSequence(c) \/ KeyOfBound(c)

InitKeys == InitWith({0})

SpecKeys == InitKeys /\ [][NextKeys]_vars

\* ------------------------------------------------------------ SpecPublish
\* Each caller builds a MetricAggregate for "a", raises events on it, takes
\* the list of its uncommitted events, saves it, and after a save that
\* succeeded publishes the events of the list one by one, stopping at the
\* first publish_event that raises.  work[c].log holds the one save of c:
\* the events taken, the outcome of the save and the number of events
\* published.
PNew(c) ==
    /\ work[c].stage = "start"
    /\ Create(c, "a")
    /\ work' = [work EXCEPT ![c].stage = "loaded"]

PRaise(c) ==
    /\ work[c].stage = "loaded"
    /\ CanDraw
    /\ RaiseEvent(c, "MetricCollected", "valid")
    /\ UNCHANGED work

PSave(c) ==
    /\ work[c].stage = "loaded"
    /\ agg[c][1]._uncommitted_events # <<>>
    /\ Save(c, <<>>)
    /\ work' = [work EXCEPT
                  ![c].stage = "saving",
                  ![c].log = <<[batch |-> agg[c][1]._uncommitted_events,
                                outcome |-> "pending", sent |-> 0]>>]

PStep(c) ==
    /\ work[c].stage = "saving"
    /\ GetNextSeq(c) \/ PutItem(c)
    /\ WithinCap(table')
    /\ work' = IF ret'.caller = c
               THEN [work EXCEPT
                       ![c].stage = IF ret'.outcome = "ok" THEN "saved"
                                    ELSE "failed",
                       ![c].log[1].outcome = ret'.outcome]
               ELSE work

PPublish(c) ==
    /\ work[c].stage = "saved"
    /\ LET entry == work[c].log[1]
       IN  /\ PublishEvent(c, entry.batch[entry.sent + 1],
                           "skafu.observability")
           /\ work' = IF ret'.outcome # "ok"
                      THEN [work EXCEPT ![c].stage = "publish_failed"]
                      ELSE [work EXCEPT
                              ![c].log[1].sent = @ + 1,
                              ![c].stage =
                                 IF entry.sent + 1 = Len(entry.batch)
                                 THEN "published" ELSE "saved"]

NextPublish ==
    \E c \in Callers :
       PNew(c) \/ PRaise(c) \/ PSave(c) \/ PStep(c) \/ PPublish(c)

SpecPublish == Init /\ [][NextPublish]_vars

\* ------------------------------------------------------------ SpecHandler
\* collect_metric, the API handler: each caller serves one request for the
\* metric whose aggregate is "a".  work[c].log holds the request of c: its
\* body, the number of events the publish loop has published and the
\* status of the response (0 while the request is being served).

\* Request bodies: a complete body with a valid metric, a body without one
\* of the required fields, and a complete body whose name is empty, for
\* which Metric(...) raises ValidationError.
Requests == {"valid", "missing_field", "no_name"}

\* The exception raised while the body is checked and the Metric built
\* (<<>> if none).
RequestError(body) ==
    CASE body = "missing_field" -> <<MissingField>>
      [] body = "no_name" -> <<NameRequired>>
      [] OTHER -> <<>>

\* The except clauses of collect_metric, in order: ValidationError becomes
\* BadRequestError, any other SkafuException InternalServerError, and any
\* other Exception InternalServerError after publish_error.  The status is
\* the one the registered exception handlers return.
StatusOf(e) ==
    IF e.type = "ValidationError" THEN 400
    ELSE IF e.type = "SkafuException" THEN 500
    ELSE 500

\* The exception reaches "except Exception", which calls publish_error.
ReportedToErrorBus(e) == e.type \notin {"ValidationError", "SkafuException"}

\* The request of caller c ends with this status.
Responded(c, status) ==
    [work EXCEPT ![c].stage = "done", ![c].log[1].status = status]

\* Lines 53-81: the body is parsed, the required fields are checked, the
\* Metric is built and validated.
HReceive(c) ==
    /\ work[c].stage = "start"
    /\ pc[c] = "idle"
    /\ \E body \in Requests, delivered \in BOOLEAN :
          LET request == [body |-> body, sent |-> 0, status |-> 0]
              e == RequestError(body)
          IN  IF e = <<>>
              THEN /\ delivered
                   /\ work' = [work EXCEPT ![c].stage = "validated",
                                           ![c].log = <<request>>]
                   /\ ret' = NoRet
                   /\ UNCHANGED bus
              ELSE /\ ~ReportedToErrorBus(e[1]) => delivered
                   /\ work' = [work EXCEPT
                                 ![c].stage = "done",
                                 ![c].log = <<[request EXCEPT
                                                !.status = StatusOf(e[1])]>>]
                   /\ ret' = Raise(c, "collect_metric", "rejected", "a", e[1])
                   /\ bus' = IF ReportedToErrorBus(e[1])
                             THEN publish_error(bus, e[1],
                                                [operation |-> "collect_metric"],
                                                delivered)
                             ELSE bus
    /\ UNCHANGED <<table, nextId, pc, agg, op, acked, clock, current_id>>

\* Line 87: repository.get_by_id; its SkafuException ends the request.
HLoad(c) ==
    /\ work[c].stage = "validated"
    /\ GetById(c, "a")
    /\ work' = IF ret'.outcome # "ok" THEN Responded(c, StatusOf(ret'.exc[1]))
               ELSE [work EXCEPT ![c].stage =
                       IF agg'[c] = <<>> THEN "absent" ELSE "loaded"]

\* Lines 88-89: no aggregate yet, a new one is built.
HCreate(c) ==
    /\ work[c].stage = "absent"
    /\ Create(c, "a")
    /\ work' = [work EXCEPT ![c].stage = "loaded"]

\* Line 92: aggregate.collect_metric(metric) raises MetricCollected.
HCollect(c) ==
    /\ work[c].stage = "loaded"
    /\ RaiseEvent(c, "MetricCollected", "valid")
    /\ work' = [work EXCEPT ![c].stage = "raised"]

\* Line 95: repository.save(aggregate), without an expected version.
HSave(c) ==
    /\ work[c].stage = "raised"
    /\ Save(c, <<>>)
    /\ work' = [work EXCEPT ![c].stage = "saving"]

\* The table calls of the save; its SkafuException ends the request.
HStep(c) ==
    /\ work[c].stage = "saving"
    /\ GetNextSeq(c) \/ PutItem(c)
    /\ WithinCap(table')
    /\ work' = IF ret'.caller # c THEN work
               ELSE IF ret'.outcome = "ok"
               THEN [work EXCEPT ![c].stage = "saved"]
               ELSE Responded(c, StatusOf(ret'.exc[1]))

\* Lines 97-134: the loop over aggregate.uncommitted_events, one
\* publish_event call per step, then mark_events_as_committed and the
\* response 201.  An exception of publish_event ends the request.
HPublish(c) ==
    /\ work[c].stage = "saved"
    /\ pc[c] = "idle"
    /\ LET events == agg[c][1]._uncommitted_events
           sent == work[c].log[1].sent
       IN  IF sent < Len(events)
           THEN /\ PublishEvent(c, events[sent + 1], "skafu.observability")
                /\ work' = IF ret'.outcome = "ok"
                           THEN [work EXCEPT ![c].log[1].sent = @ + 1]
                           ELSE Responded(c, StatusOf(ret'.exc[1]))
           ELSE /\ agg' = [agg EXCEPT
                             ![c] = <<mark_events_as_committed(agg[c][1])>>]
                /\ work' = Responded(c, 201)
                /\ ret' = Ret(c, "collect_metric", "ok", "a")
                /\ UNCHANGED <<table, nextId, pc, op, acked, clock, bus,
                               current_id>>

NextHandler ==
    \E c \in Callers :
       \/ HReceive(c)
       \/ HLoad(c)
       \/ HCreate(c)
       \/ HCollect(c)
       \/ HSave(c)
       \/ HStep(c)
       \/ HPublish(c)

SpecHandler == Init /\ [][NextHandler]_vars

\* ------------------------------------------------------------ SpecLife
\* The lifecycle of an aggregate object.  The tester obtains one aggregate
\* object for "a", constructing it or loading it with get_by_id, and keeps
\* it: it raises events on it, applies events to it directly, marks its
\* events committed, saves it, again after a save that failed too, and
\* reads the stream with get_events.  Meanwhile the other caller loads the
\* aggregate with get_by_id.  The stream holds MaxInit events at the start.
LNew(c) ==
    /\ agg[c] = <<>>
    /\ Create(c, "a")
    /\ UNCHANGED work

LLoad(c) ==
    /\ agg[c] = <<>>
    /\ GetById(c, "a")
    /\ UNCHANGED work

LRaise(c) ==
    /\ CanDraw
    /\ \E data \in EventData : RaiseEvent(c, "MetricCollected", data)
    /\ UNCHANGED work

LApply(c) ==
    /\ agg[c] # <<>>
    /\ agg[c][1]._version < MaxApplied
    /\ \E type \in AllEventTypes, data \in EventData :
          ApplyEvent(c, Event(<<0, 0>>, type, "a", data))
    /\ UNCHANGED work

LMark(c) == MarkEventsAsCommitted(c) /\ UNCHANGED work

LSave(c) ==
    /\ agg[c] # <<>>
    /\ Save(c, <<>>)
    /\ UNCHANGED work

LStep(c) ==
    /\ GetNextSeq(c) \/ PutItem(c)
    /\ WithinCap(table')
    /\ UNCHANGED work

LRead(c) == GetEvents(c, "a", <<>>) /\ UNCHANGED work

NextLife ==
    \/ LNew(Tester)
    \/ LRaise(Tester)
    \/ LApply(Tester)
    \/ LMark(Tester)
    \/ LSave(Tester)
    \/ LStep(Tester)
    \/ LRead(Tester)
    \/ \E c \in Callers : LLoad(c)

InitLife == InitWith({MaxInit})

SpecLife == InitLife /\ [][NextLife]_vars

\* ------------------------------------------------------------ SpecRound
\* One writer and no other: the tester runs a unit of work on "a" as in
\* SpecWork, reloading after a save that failed, until a save succeeds;
\* then the other caller loads the aggregate with get_by_id.  Time passes
\* between the calls.
Reader == 2

Reload(c) ==
    /\ work[Tester].stage = "done"
    /\ work[c].stage = "start"
    /\ GetById(c, "a")
    /\ work' = [work EXCEPT ![c].stage = "reloaded"]

NextRound ==
    \/ WLoad(Tester)
    \/ WCreate(Tester)
    \/ WRaise(Tester)
    \/ WSave(Tester)
    \/ WStep(Tester)
    \/ Reload(Reader)
    \/ Tick

SpecRound == InitWork /\ [][NextRound]_vars

\* ------------------------------------------------------------ SpecDomain
\* The domain operations on aggregates in memory.  Caller 1 holds a
\* MetricAggregate and calls collect_metric on it; caller 2 holds an
\* AlertAggregate and calls create_alert and trigger_alert on it, with
\* valid and invalid inputs.  Each aggregate is handed up to MaxEvents
\* events.
MetricCaller == 1
AlertCaller == 2

\* The return of a domain operation of caller c on its aggregate: its
\* input, and the exception it raised, if it raised one.
DomainRet(c, call, input, e) ==
    [(IF e = <<>> THEN Ret(c, call, "ok", agg[c][1].id)
      ELSE Raise(c, call, "raised", agg[c][1].id, e[1]))
     EXCEPT !.value = <<input>>]

\* Caller c draws a uuid4 when its operation gets as far as raise_event.
Drawn(c, e) == [nextId EXCEPT ![c] = IF e = <<>> THEN @ + 1 ELSE @]

CanHand(c) ==
    /\ pc[c] = "idle"
    /\ agg[c] # <<>>
    /\ Len(agg[c][1]._uncommitted_events) < MaxEvents

DNewMetrics(c) ==
    /\ agg[c] = <<>>
    /\ Create(c, "a")
    /\ UNCHANGED work

DNewAlerts(c) ==
    /\ agg[c] = <<>>
    /\ agg' = [agg EXCEPT ![c] = <<NewAlertAggregate("b")>>]
    /\ ret' = Ret(c, "create", "ok", "b")
    /\ UNCHANGED <<table, nextId, pc, op, acked, work, clock, bus, current_id>>

DCollectMetric(c) ==
    /\ CanHand(c)
    /\ \E metric \in EventData :
          /\ agg' = [agg EXCEPT
                       ![c] = <<collect_metric(agg[c][1], uuid4(c), metric)>>]
          /\ nextId' = Drawn(c, collect_metric_error(metric))
          /\ ret' = DomainRet(c, "aggregate.collect_metric", metric,
                              collect_metric_error(metric))
    /\ UNCHANGED <<table, pc, op, acked, work, clock, bus, current_id>>

DCreateAlert(c) ==
    /\ CanHand(c)
    /\ \E alert \in Alerts :
          /\ agg' = [agg EXCEPT
                       ![c] = <<create_alert(agg[c][1], uuid4(c), alert)>>]
          /\ nextId' = Drawn(c, create_alert_error(alert))
          /\ ret' = DomainRet(c, "aggregate.create_alert", alert,
                              create_alert_error(alert))
    /\ UNCHANGED <<table, pc, op, acked, work, clock, bus, current_id>>

DTriggerAlert(c) ==
    /\ CanHand(c)
    /\ \E alert_id \in AlertIds :
          LET e == trigger_alert_error(agg[c][1], alert_id)
          IN  /\ agg' = [agg EXCEPT
                           ![c] = <<trigger_alert(agg[c][1], uuid4(c),
                                                  alert_id)>>]
              /\ nextId' = Drawn(c, e)
              /\ ret' = DomainRet(c, "aggregate.trigger_alert", alert_id, e)
    /\ UNCHANGED <<table, pc, op, acked, work, clock, bus, current_id>>

NextDomain ==
    \/ DNewMetrics(MetricCaller)
    \/ DCollectMetric(MetricCaller)
    \/ DNewAlerts(AlertCaller)
    \/ DCreateAlert(AlertCaller)
    \/ DTriggerAlert(AlertCaller)

SpecDomain == InitAgg /\ [][NextDomain]_vars

\* ------------------------------------------------------------ SpecCorrelation
\* Event construction and the correlation id of the execution context.
\* Each caller, an execution context of its own, assigns its context
\* variable (correlation_id.set with the id of a request header or of an
\* incoming event, correlation_id.clear) and constructs events: with an
\* empty correlation_id, as raise_event does, and with the correlation_id
\* of a stored record, as get_events does.  work[c].log lists the events c
\* constructed since it last assigned the context variable, each with the
\* correlation_id given to Event(...) and the one the event has.

\* The correlation ids callers pass in: none, and two given ones.
GivenIds == {<<>>, <<"request">>, <<"stored">>}

\* correlation_id.set(value), correlation_id.clear() for the empty value.
CSet(c) ==
    /\ pc[c] = "idle"
    /\ \E value \in GivenIds \ {<<"stored">>} :
          /\ current_id' = [current_id EXCEPT ![c] = value]
          /\ ret' = [Ret(c, "correlation_id.set", "ok", "a")
                      EXCEPT !.value = <<value>>]
    /\ work' = [work EXCEPT ![c].log = <<>>]
    /\ UNCHANGED <<table, nextId, pc, agg, op, acked, clock, bus>>

\* Event(..., correlation_id=given, ...)
CConstruct(c) ==
    /\ pc[c] = "idle"
    /\ Len(work[c].log) < MaxConstructed
    /\ current_id[c] = <<>> => nextId[c] < MaxConstructed
    /\ \E given \in GivenIds \ {<<"request">>} :
          LET made == Event__post_init__(given, current_id[c], uuid4(c))
          IN  /\ current_id' = [current_id EXCEPT ![c] = made.context]
              /\ nextId' = [nextId EXCEPT ![c] =
                              IF given = <<>> /\ current_id[c] = <<>>
                              THEN @ + 1 ELSE @]
              /\ work' = [work EXCEPT ![c].log =
                            Append(@, [given |-> given,
                                       correlation_id |-> made.value])]
              /\ ret' = [Ret(c, "Event", "ok", "a")
                          EXCEPT !.value = <<given, made.value>>]
    /\ UNCHANGED <<table, pc, agg, op, acked, clock, bus>>

NextCorrelation == \E c \in Callers : CSet(c) \/ CConstruct(c)

SpecCorrelation == InitAgg /\ [][NextCorrelation]_vars

\* ------------------------------------------------------------ SpecEvents
\* EventHandler.handle_event.  Each caller runs a handler, the base class
\* or a subclass, on incoming events; the subclass handler returns or
\* raises, and the put_events call on the error bus succeeds or raises a
\* ClientError.  The events are of aggregate "a".  work[c].log lists the
\* events handled by c, each with what the handler did, whether the error
\* bus was reached and the number of put_events calls made on the error
\* bus.

\* What _handle_event_impl does with an event: it returns (<<>>) or raises.
ImplOutcomes ==
    {<<>>, <<NotImplemented>>, <<SkafuException(<<"handler failed">>)>>}

\* handler names: type(self).__name__.
HandlerOf(impl) ==
    IF impl = <<NotImplemented>> THEN "EventHandler" ELSE "MetricHandler"

HandleEvent(c) ==
    /\ pc[c] = "idle"
    /\ Len(work[c].log) < MaxHandled
    /\ \E id \in SharedIds, impl \in ImplOutcomes, delivered \in BOOLEAN :
          LET event == Event(<<0, Len(work[c].log) + 1>>, "MetricCollected",
                             id, "valid")
              reports == handle_event_reports(event, HandlerOf(impl), impl,
                                              delivered)
              e == handle_event_error(impl, delivered)
          IN  /\ impl = <<>> => delivered
              /\ current_id' = [current_id EXCEPT ![c] = <<"stored">>]
              /\ bus' = [bus EXCEPT !.errors =
                            @ \cup {reports[i] : i \in DOMAIN reports}]
              /\ ret' = [(IF e = <<>>
                          THEN Ret(c, "handle_event", "ok", id)
                          ELSE Raise(c, "handle_event", "raised", id, e[1]))
                         EXCEPT !.value = <<event>>]
              /\ work' = [work EXCEPT ![c].log =
                            Append(@, [event |-> event, impl |-> impl,
                                       delivered |-> delivered,
                                       calls |-> Len(reports)])]
    /\ UNCHANGED <<table, nextId, pc, agg, op, acked, clock>>

NextEvents == \E c \in Callers : HandleEvent(c)

SpecEvents == InitAgg /\ [][NextEvents]_vars

\* ------------------------------------------------------------ properties
AllIdle == \A c \in Callers : pc[c] = "idle"

\* The stored item of aggregate id whose sequence number is s.
ItemAt(t, id, s) ==
    CHOOSE it \in Partition(t, id) : ParseInt(it.eventSequence) = s

\* The i-th smallest member of a set of numbers.
NthSmallest(S, i) ==
    CHOOSE s \in S : Cardinality({r \in S : r < s}) = i - 1

\* Some stored record holds the event with this id.
Durable(eid) == \E it \in table : it.eventId = eid

\* The sequence numbers under which the event with this id is stored.
SequencesOf(eid) == {ParseInt(it.eventSequence) : it \in {x \in table : x.eventId = eid}}

\* The handle holds exactly the events raised on it: it was created fresh,
\* not loaded from history.
Fresh(a) == Len(a.metrics) = Len(a._uncommitted_events)

\* C1: when every append has returned, the sequence numbers stored for an
\* aggregate are exactly 1..N, N being the number of appends that succeeded
\* for it, however the appends interleaved.
C1_AppendsGetDistinctSequences ==
    AllIdle => \A id \in AggregateIds :
                  StoredSequences(table, id) = 1..acked[id]

\* C2: an append given expected version V that returns from its conditional
\* write returns a concurrency conflict exactly when the latest persisted
\* sequence of the aggregate at that moment differs from V.
C2_ConflictIffVersionDiffers ==
    [][\A c \in Callers :
          (/\ pc[c] = "put"
           /\ pc'[c] = "idle"
           /\ ret'.caller = c
           /\ ret'.outcome \in {"ok", "conflict"}
           /\ op[c].expected # <<>>)
          => (ret'.outcome = "conflict"
                <=> latestSequence(table, op[c].id) # op[c].expected[1])]_vars

\* The first save of caller c was of one event with expected version <<v>>
\* and returned this outcome.
FirstSave(c, v, outcome) ==
    /\ work[c].log # <<>>
    /\ work[c].log[1] = [expected |-> <<v>>, k |-> 1, outcome |-> outcome]

\* C3: of two callers that loaded the aggregate at the same version V, raised
\* one event each and saved with expected version V, exactly one succeeds
\* and the other gets a concurrency conflict.
C3_ExactlyOneSaveWins ==
    \A v \in 0..MaxLoaded :
       ~(FirstSave(1, v, "ok") /\ FirstSave(2, v, "ok"))

\* Caller l lost a save of one event at version v to caller w, reloaded,
\* raised one event again and saved it with expected version v + 1, and
\* that save returned without a storage failure; w did nothing else.
LostThenRetried(l, w, v) ==
    /\ work[w].log = <<[expected |-> <<v>>, k |-> 1, outcome |-> "ok"]>>
    /\ Len(work[l].log) = 2
    /\ work[l].log[1] = [expected |-> <<v>>, k |-> 1, outcome |-> "conflict"]
    /\ work[l].log[2].expected = <<v + 1>>
    /\ work[l].log[2].k = 1
    /\ work[l].log[2].outcome \in {"ok", "conflict"}

\* C4: the caller that lost a conflict at version V, after reloading and
\* raising its event again, saves with expected version V + 1 successfully;
\* the stream is then exactly V + 2 events with sequences 1..V+2, the
\* winner's event at V + 1 and the loser's retried event at V + 2.
C4_RetryAfterConflictSucceeds ==
    \A l \in Callers, w \in Callers, v \in 0..MaxLoaded :
       (l # w /\ LostThenRetried(l, w, v))
       => /\ work[l].log[2].outcome = "ok"
          /\ StoredSequences(table, "a") = 1..(v + 2)
          /\ Cardinality(Partition(table, "a")) = v + 2
          /\ ItemAt(table, "a", v + 1).eventId[1] = w
          /\ ItemAt(table, "a", v + 2).eventId[1] = l
          /\ ItemAt(table, "a", v + 2).eventId
               = agg[l][1].metrics[Len(agg[l][1].metrics)]

\* C4 witness: on a stream of 3 events the loser's retry has returned and
\* the stream holds 5 events.
C4_Witness ==
    \E l \in Callers, w \in Callers :
       /\ l # w
       /\ LostThenRetried(l, w, 3)
       /\ work[l].log[2].outcome = "ok"
       /\ Cardinality(Partition(table, "a")) = 5

\* C5: in every reachable state the sequence numbers stored for an aggregate
\* are exactly 1..n, n being the number of its stored records: no gap and
\* no duplicate.
C5_SequencesGapFree ==
    \A id \in AggregateIds :
       LET n == Cardinality(Partition(table, id))
       IN  /\ StoredSequences(table, id) = 1..n
           /\ \A x \in Partition(table, id), y \in Partition(table, id) :
                 ParseInt(x.eventSequence) = ParseInt(y.eventSequence) => x = y

\* C5 witness: a stream of at least two records on which two appends took
\* the same sequence number (more appends succeeded than records exist).
C5_Witness ==
    /\ Cardinality(Partition(table, "a")) >= 2
    /\ acked["a"] > Cardinality(Partition(table, "a"))

\* C6: a record, once stored under (aggregate id, sequence), is never
\* changed, replaced or removed by any later step.
C6_StoredRecordsImmutable ==
    [][\A it \in table : it \in table']_vars

\* The events get_events has to return for (id, from): those stored at the
\* sequence numbers >= from (all when from is None), by ascending number.
EventsFrom(t, id, from) ==
    LET S == {s \in StoredSequences(t, id) :
                 IF from = <<>> THEN TRUE ELSE s >= from[1]}
    IN  [i \in 1..Cardinality(S) |->
            EventOfItem(ItemAt(t, id, NthSmallest(S, i)))]

\* C7: get_events(id) returns the events of the aggregate in strictly
\* ascending sequence order, and get_events(id, from_sequence = k) returns
\* exactly the events with sequence >= k, ascending.
C7_GetEventsAscendingFrom ==
    (ret.call = "get_events" /\ ret.outcome = "ok")
    => ret.value = EventsFrom(table, ret.id, ret.from)

\* C7 witness: get_events with from_sequence 2 on a stream of three events
\* returned two of them.
C7_Witness ==
    /\ ret.call = "get_events"
    /\ ret.outcome = "ok"
    /\ ret.from = <<2>>
    /\ Cardinality(Partition(table, ret.id)) = 3
    /\ Len(ret.value) = 2

\* The aggregate from_history has to build from the full stream of id:
\* every stored event applied in sequence order, nothing uncommitted.
Replayed(t, id) ==
    LET n == Cardinality(Partition(t, id))
    IN  [id |-> id, version |-> 1, _version |-> n,
         metrics |-> [i \in 1..n |-> ItemAt(t, id, i).eventId],
         metrics_created_at |-> [i \in 1..n |-> clock],
         _uncommitted_events |-> <<>>]

\* C8: for an aggregate with no events get_events returns the empty list
\* and get_by_id returns None; get_by_id returns None only then, and else
\* the aggregate rebuilt by from_history from the full stream.
C8_AbsentIffNoEvents ==
    /\ \A id \in AggregateIds :
          Partition(table, id) = {} => get_events(table, id, <<>>) = <<>>
    /\ (ret.call = "get_by_id" /\ ret.outcome = "ok")
       => /\ agg[ret.caller] = <<>> <=> Partition(table, ret.id) = {}
          /\ agg[ret.caller] # <<>>
             => agg[ret.caller][1] = Replayed(table, ret.id)

\* C8 witness: get_by_id has returned the aggregate of a stream of at least
\* two events.
C8_Witness ==
    /\ ret.call = "get_by_id"
    /\ ret.outcome = "ok"
    /\ agg[ret.caller] # <<>>
    /\ agg[ret.caller][1]._version >= 2

\* C9: after k >= 1 raise_event calls on a fresh aggregate with no prior
\* events its uncommitted list has length k and its version is k; after a
\* save of it that succeeded with no other writer, the uncommitted list is
\* empty and get_events returns exactly its k events, at sequences 1..k.
C9_FreshAggregateVersionIsK ==
    \A c \in Callers :
       /\ (agg[c] # <<>> /\ Fresh(agg[c][1]) /\ agg[c][1].metrics # <<>>)
          => /\ Len(agg[c][1]._uncommitted_events) = Len(agg[c][1].metrics)
             /\ agg[c][1].version = Len(agg[c][1].metrics)
       /\ (/\ ret = Ret(c, "save", "ok", "a")
           /\ acked["a"] = Len(agg[c][1].metrics))
          => /\ agg[c][1]._uncommitted_events = <<>>
             /\ LET events == get_events(table, "a", <<>>)
                IN  /\ Len(events) = acked["a"]
                    /\ StoredSequences(table, "a") = 1..acked["a"]
                    /\ \A i \in 1..Len(events) :
                          events[i].event_id = agg[c][1].metrics[i]

\* The events caller c created that its aggregate handle has applied, in
\* the order they were raised.
OwnEvents(c) ==
    IF agg[c] = <<>> THEN <<>>
    ELSE SelectSeq(agg[c][1].metrics, LAMBDA eid : eid[1] = c)

\* C10: of two events e1, e2 raised in that order on one aggregate, e2 is
\* never durable while e1 is not, and when both are durable the sequence of
\* e1 is smaller than the sequence of e2.
C10_SaveKeepsRaiseOrder ==
    \A c \in Callers :
       LET own == OwnEvents(c)
       IN  \A i \in DOMAIN own, j \in DOMAIN own :
              (i < j /\ Durable(own[j]))
              => /\ Durable(own[i])
                 /\ \A s1 \in SequencesOf(own[i]), s2 \in SequencesOf(own[j]) :
                       s1 < s2

\* C11: when the append of the i-th uncommitted event fails during save, the
\* save is over and reports the failure, and the events of the batch that
\* are durable are exactly the first i - 1, in raise order.
C11_FailedSaveLeavesPrefix ==
    [][\A c \in Callers :
          (/\ pc[c] \in {"seq", "put"}
           /\ op[c].kind = "save"
           /\ ret'.caller = c
           /\ ret'.outcome \in {"error", "conflict"})
          => /\ ret'.exc # <<>>
             /\ pc'[c] = "idle"
             /\ \A j \in DOMAIN op[c].batch :
                   (\E it \in table' : it.eventId = op[c].batch[j].event_id)
                   <=> j < op[c].i]_vars

\* The kind of an exception: what a handler can dispatch on, its class and
\* its error_code.
ErrorKind(e) == <<e.type, e.error_code>>

\* The exceptions a call reports for a storage failure.
StorageFailures(call) ==
    IF call = "save" THEN {SaveFailed(SequenceFailed), SaveFailed(AppendFailed)}
    ELSE {SequenceFailed, AppendFailed}

\* C12: a concurrency conflict reaches the caller of append_event, and of
\* save, as an error of a kind different from the kind a storage failure is
\* reported with.
C12_ConflictKindDistinct ==
    (ret.call \in {"append_event", "save"} /\ ret.outcome = "conflict")
    => ErrorKind(ret.exc[1])
          \notin {ErrorKind(e) : e \in StorageFailures(ret.call)}

\* C13: an append_event call that reports an error, a concurrency conflict
\* or a storage failure at either table call, has written nothing: the
\* step at which it fails leaves the streams of all aggregates as they
\* were, its earlier step changed nothing, and its event is not stored.
C13_FailedAppendChangesNothing ==
    [][\A c \in Callers :
          /\ (pc[c] = "seq" /\ pc'[c] # "seq") => table' = table
          /\ (/\ pc[c] \in {"seq", "put"}
              /\ op[c].kind = "append_event"
              /\ ret'.caller = c
              /\ ret'.exc # <<>>)
             => /\ table' = table
                /\ ~\E it \in table' : it.eventId = op[c].batch[1].event_id]_vars

\* C13 witness: an append_event has returned a concurrency conflict on a
\* stream that holds events.
C13_Witness ==
    /\ ret.call = "append_event"
    /\ ret.outcome = "conflict"
    /\ Partition(table, ret.id) # {}

\* C14: appends to different aggregate ids are independent.  A step changes
\* the stream of an aggregate only if it is the put of an append for that
\* aggregate; the sequence number an append is assigned, its outcome and
\* what it writes are determined by the stream of its own aggregate alone.
C14_AggregatesIndependent ==
    [][/\ \A id \in AggregateIds :
             Partition(table', id) # Partition(table, id)
             => \E c \in Callers :
                   pc[c] = "put" /\ op[c].id = id /\ pc'[c] # "put"
       /\ \A c \in Callers :
             LET id == op[c].id
                 own == Partition(table, id)
             IN  /\ (pc[c] = "seq" /\ pc'[c] = "put")
                    => op'[c].seq = _get_next_sequence_number(own, id)
                 /\ (/\ pc[c] = "put"
                     /\ ret'.caller = c
                     /\ ret'.outcome \in {"ok", "conflict"})
                    => LET item == MakeItem(op[c].batch[op[c].i], op[c].seq)
                           put == put_item(own, item, op[c].expected)
                       IN  /\ (ret'.outcome = "ok") = put.ok
                           /\ Partition(table', id) = put.table]_vars

\* C14 witness: an append for "b" has succeeded while an append for "a" is
\* in progress and the stream of "a" holds an event.
C14_Witness ==
    /\ ret.call = "append_event"
    /\ ret.outcome = "ok"
    /\ ret.id = "b"
    /\ Partition(table, "a") # {}
    /\ \E c \in Callers : pc[c] = "put" /\ op[c].id = "a"

\* C15: every append re-reads the latest sequence of its aggregate, and a
\* successful append stores its event at that aggregate's latest sequence
\* plus one, the latest sequence being 0 when it has no events.
C15_AppendStoresAtLatestPlusOne ==
    [][\A c \in Callers :
          /\ (pc[c] = "seq" /\ pc'[c] = "put")
             => op'[c].seq = latestSequence(table, op[c].id) + 1
          /\ (/\ pc[c] = "put"
              /\ op[c].kind = "append_event"
              /\ ret'.caller = c
              /\ ret'.outcome = "ok")
             => \E it \in table' :
                   /\ it.eventId = op[c].batch[1].event_id
                   /\ it.aggregateId = op[c].id
                   /\ ParseInt(it.eventSequence)
                        = latestSequence(table, op[c].id) + 1]_vars

\* The ids of the MetricCollected events among those handed to caller c's
\* handle, in the order they were handed over: the domain state they give
\* when every one of them is applied.
AppliedMetrics(log) ==
    LET recognized == SelectSeq(log, LAMBDA h :
                                   h.event.event_type = "MetricCollected")
    IN  [i \in DOMAIN recognized |-> recognized[i].event.event_id]

\* C16: a raise_event call appends exactly one event, carrying the
\* aggregate's id, at the end of uncommitted_events, applies it to the
\* in-memory state and increments version by exactly 1; so the in-memory
\* state is that of applying every event handed to the aggregate so far.
C16_RaiseEventAppendsAndApplies ==
    [][(ret'.call = "raise_event" /\ nextId' # nextId)
       => LET c == ret'.caller
              a == agg[c][1]
              b == agg'[c][1]
              e == ret'.value[1]
          IN  /\ e.aggregate_id = a.id
              /\ b._uncommitted_events = Append(a._uncommitted_events, e)
              /\ b.metrics = IF e.event_type = "MetricCollected"
                             THEN Append(a.metrics, e.event_id) ELSE a.metrics
              /\ b.version = a.version + 1
              /\ b.metrics = AppliedMetrics(work'[c].log)]_vars

\* The number of events applied to a handle: those handed to it whose
\* application did not raise.
AppliedCount(log) ==
    Len(SelectSeq(log, LAMBDA h : ~Raises(h.event)))

\* C17: the version an aggregate exposes is 0 when freshly constructed and
\* always equals the number of events applied to it, history events and
\* raised events together.
C17_VersionCountsAppliedEvents ==
    agg[Tester] # <<>>
    => agg[Tester][1].version = AppliedCount(work[Tester].log)

\* C18: applying an event of a type the aggregate does not recognize raises
\* no error and leaves the domain state unchanged, whether the event comes
\* through raise_event, apply_event or from_history.
C18_UnknownTypeIsNoOp ==
    [][/\ (/\ agg[Tester] # <<>>
           /\ work'[Tester] # work[Tester]
           /\ ret'.value[1].event_type # "MetricCollected")
          => /\ ret'.outcome = "ok"
             /\ ret'.exc = <<>>
             /\ agg'[Tester][1].metrics = agg[Tester][1].metrics
       /\ (/\ agg[Tester] = <<>>
           /\ ret'.call = "from_history"
           /\ ret'.value # <<>>)
          => LET known == SelectSeq(ret'.value, LAMBDA e :
                                       e.event_type = "MetricCollected")
             IN  /\ ret'.outcome = "raised"
                    => \E i \in DOMAIN known : known[i].event_data # "valid"
                 /\ ret'.outcome = "ok"
                    => agg'[Tester][1].metrics
                         = [i \in DOMAIN known |-> known[i].event_id]]_vars

\* C18 witness: from_history has rebuilt an aggregate from a history that
\* holds an event of an unrecognized type with a payload no metric can be
\* built from, and then an event of that type was raised on it.
C18_Witness ==
    /\ agg[Tester] # <<>>
    /\ Len(work[Tester].log) = 3
    /\ work[Tester].log[1].via = "from_history"
    /\ work[Tester].log[1].event.event_type = "MetricArchived"
    /\ work[Tester].log[1].event.event_data = "no_name"
    /\ work[Tester].log[2].event.event_type = "MetricCollected"
    /\ work[Tester].log[3].via = "raise_event"
    /\ work[Tester].log[3].event.event_type = "MetricArchived"
    /\ Len(agg[Tester][1].metrics) = 1

\* C19: from_history called with no events fails with the empty-history
\* error and returns no aggregate.
C19_EmptyHistoryFails ==
    (ret.call = "from_history" /\ ret.value = <<>>)
    => /\ ret.outcome = "raised"
       /\ ret.exc # <<>>
       /\ ret.exc[1].type = "SkafuException"
       /\ ret.exc[1].message
            = <<"Cannot reconstruct aggregate from empty event history">>
       /\ agg[ret.caller] = <<>>

\* C19 witness: from_history has been called with the empty list.
C19_Witness ==
    /\ ret.call = "from_history"
    /\ ret.value = <<>>
    /\ ret.outcome = "raised"

\* C20: from_history called with n >= 1 events returns an aggregate whose id
\* is the first event's aggregate_id, whose state is that of applying all n
\* events in the given order, whose version is n and whose
\* uncommitted_events is empty.
C20_FromHistoryRebuilds ==
    (ret.call = "from_history" /\ ret.outcome = "ok")
    => LET a == agg[ret.caller][1]
           events == ret.value
           known == SelectSeq(events, LAMBDA e :
                                 e.event_type = "MetricCollected")
       IN  /\ a.id = events[1].aggregate_id
           /\ a.metrics = [i \in DOMAIN known |-> known[i].event_id]
           /\ a.version = Len(events)
           /\ a._uncommitted_events = <<>>

\* The domain state of an aggregate handle: what its events made of it,
\* its id and its list of Metric objects.
DomainState(a) ==
    [id |-> a.id, metrics |-> a.metrics,
     metrics_created_at |-> a.metrics_created_at]

\* C21: mark_events_as_committed empties uncommitted_events and leaves the
\* aggregate's id, its version (the exposed attribute and the counter) and
\* its domain state as they were; on a handle with no uncommitted events it
\* changes nothing at all.
C21_MarkCommittedClearsOnly ==
    [][ret'.call = "mark_events_as_committed"
       => LET a == agg[ret'.caller][1]
              b == agg'[ret'.caller][1]
          IN  /\ b._uncommitted_events = <<>>
              /\ b.id = a.id
              /\ b.version = a.version
              /\ b._version = a._version
              /\ DomainState(b) = DomainState(a)
              /\ a._uncommitted_events = <<>> => b = a]_vars

\* C21 witness: mark_events_as_committed has just run on a handle that was
\* rebuilt from history and had events raised on it, and left it with
\* metrics and a version counter but no uncommitted events.
C21_Witness ==
    /\ ret.call = "mark_events_as_committed"
    /\ agg[Tester][1]._uncommitted_events = <<>>
    /\ Len(agg[Tester][1].metrics) >= 2
    /\ agg[Tester][1]._version >= 2
    /\ \E i \in DOMAIN work[Tester].log :
          work[Tester].log[i].via = "raise_event"

\* The events of a log of handed events, in order.
EventsOf(log) == [i \in DOMAIN log |-> log[i].event]

\* C22: an aggregate rebuilt by from_history from what get_events returns
\* for a non-empty stream has the same domain state as a fresh instance
\* with the same id to which the same events were applied directly, in the
\* same order.
C22_RoundTripEqualsDirectReplay ==
    \A c1 \in Callers, c2 \in Callers :
       (/\ work[c1].stage = "loaded"
        /\ agg[c1] # <<>>
        /\ work[c2].stage = "fresh"
        /\ agg[c2] # <<>>
        /\ EventsOf(work[c2].log) = get_events(table, "a", <<>>))
       => DomainState(agg[c1][1]) = DomainState(agg[c2][1])

\* C23: two fresh instances with the same id to which the same events were
\* applied, one event or several, have the same domain state and the same
\* version: the result of apply_event depends on the state and the event
\* alone.
C23_ApplyDeterministic ==
    \A c1 \in Callers, c2 \in Callers :
       (/\ work[c1].stage = "fresh"
        /\ work[c2].stage = "fresh"
        /\ agg[c1] # <<>>
        /\ agg[c2] # <<>>
        /\ work[c1].log # <<>>
        /\ work[c1].log = work[c2].log)
       => /\ DomainState(agg[c1][1]) = DomainState(agg[c2][1])
          /\ agg[c1][1]._version = agg[c2][1]._version
          /\ agg[c1][1].version = agg[c2][1].version

\* C28: no two stored records carry the same event_id, whatever raise_event,
\* save and get_by_id calls were made, a save called again on the same
\* handle after an earlier save of it failed part-way included.
C28_EventIdUnique ==
    \A x \in table, y \in table : x.eventId = y.eventId => x = y

\* The last save call of caller c, as work[c].log records it.
LastSave(c) == work[c].log[Len(work[c].log)]

\* Caller c has made a save call that returned, with an expected version
\* and at least two uncommitted events, and no other caller has saved: the
\* expected version, the loaded version of the handle, was the latest
\* sequence of the stream.
SavedBatchAlone(c) ==
    /\ work[c].log # <<>>
    /\ LastSave(c).expected # <<>>
    /\ LastSave(c).k >= 2
    /\ LastSave(c).outcome # "pending"
    /\ \A d \in Callers \ {c} : work[d].log = <<>>

\* C30: a save called with expected version V equal to the latest sequence
\* of the stream, on an aggregate with k >= 2 uncommitted events, does not
\* end in a concurrency conflict; unless a table call fails it succeeds,
\* and then the k events are stored at sequences V+1..V+k in raise order.
C30_BatchSaveWithExpectedVersion ==
    \A c \in Callers :
       SavedBatchAlone(c)
       => LET V == LastSave(c).expected[1]
              k == LastSave(c).k
          IN  /\ LastSave(c).outcome \in {"ok", "error"}
              /\ LastSave(c).outcome = "ok"
                 => /\ latestSequence(table, "a") = V + k
                    /\ \A j \in 1..k :
                          ItemAt(table, "a", V + j).eventId
                             = agg[c][1].metrics[V + j]

\* C30 witness: a save of two events with expected version MaxLoaded, the
\* latest sequence of the stream, has succeeded.
C30_Witness ==
    \E c \in Callers :
       /\ SavedBatchAlone(c)
       /\ LastSave(c).expected = <<MaxLoaded>>
       /\ LastSave(c).k = 2
       /\ LastSave(c).outcome = "ok"
       /\ Cardinality(Partition(table, "a")) = MaxLoaded + 2

\* a < b for numbers given by their decimal digits, without leading zeros.
NumLess(d, e) ==
    IF Len(d) # Len(e) THEN Len(d) < Len(e) ELSE LexLess(d, e)

\* All the numbers formatted so far, with their keys.
AllFormatted ==
    UNION {{work[c].log[i] : i \in DOMAIN work[c].log} : c \in Callers}

\* C29: the persisted form of a sequence number is a string of fixed width
\* whose lexicographic order agrees with numeric order: for sequence
\* numbers a < b the key of a sorts strictly before the key of b, and a
\* from_sequence bound is encoded with that same width.
C29_KeyOrderIsNumericOrder ==
    \A x \in AllFormatted, y \in AllFormatted :
       /\ Len(x.key) = Width
       /\ NumLess(x.n, y.n) => LexLess(x.key, y.key)

\* C25: a publish_event call, whatever its outcome, leaves every stored
\* record as it was and leaves the result every save has reported as it
\* was: a publish failure after a successful save neither removes nor
\* changes the committed events nor turns the save into a failure.
C25_PublishFailureKeepsAppend ==
    [][ret'.call = "publish_event"
       => /\ table' = table
          /\ \A c \in Callers :
                work[c].log # <<>>
                => /\ work'[c].log # <<>>
                   /\ work'[c].log[1].outcome = work[c].log[1].outcome
                   /\ work'[c].log[1].batch = work[c].log[1].batch]_vars

\* C25 witness: publish_event has just failed for the second event of a
\* save that succeeded, and both events of the save are still stored.
C25_Witness ==
    /\ ret.call = "publish_event"
    /\ ret.exc # <<>>
    /\ LET entry == work[ret.caller].log[1]
       IN  /\ work[ret.caller].stage = "publish_failed"
           /\ entry.outcome = "ok"
           /\ entry.sent = 1
           /\ Len(entry.batch) = 2
           /\ \A i \in 1..2 : Durable(entry.batch[i].event_id)

\* C26: whenever publish_event fails, because the put_events call raised or
\* because the bus reported the entry as failed, a put_events call carrying
\* an error record for that event has been made on the error bus by the
\* time publish_event raises.
C26_PublishFailureReportedToErrorBus ==
    (ret.call = "publish_event" /\ ret.exc # <<>>)
    => \E r \in bus.errors :
          r.context.original_event_id = ret.value[1].event_id

\* The request of caller c has been answered with this status.
Answered(c, status) ==
    /\ work[c].stage = "done"
    /\ work[c].log[1].status = status

\* The ids of the events delivered to the event bus.
PublishedIds == {entry.Detail.event_id : entry \in bus.events}

\* C24: in the collect_metric flow every event a save has made durable is
\* handed to publish_event afterwards: when a request has been answered
\* with 201, each stored event it raised has been published; and no event
\* is on the bus that is not stored.
C24_CommittedEventsArePublished ==
    /\ \A c \in Callers :
          Answered(c, 201)
          => \A it \in table : it.eventId[1] = c => it.eventId \in PublishedIds
    /\ \A eid \in PublishedIds : Durable(eid)

\* C27: a request rejected for invalid client input, a missing required
\* field or a metric that fails validation, is answered with status 400,
\* never 500, and no event is raised or stored for it.
C27_InvalidInputIsClientError ==
    \A c \in Callers :
       (/\ work[c].stage = "done"
        /\ work[c].log[1].body \in {"missing_field", "no_name"})
       => /\ work[c].log[1].status = 400
          /\ nextId[c] = 0
          /\ ~\E it \in table : it.eventId[1] = c

\* The ids of a list of events.
IdsOf(events) == [i \in DOMAIN events |-> events[i].event_id]

\* C31: a save in which an append fails leaves the aggregate as it was: its
\* uncommitted_events is still the whole batch in raise order, the events
\* already stored included, and its version and domain state are unchanged;
\* the uncommitted events of a handle are emptied only by the last append
\* of a save in which every append succeeded.
C31_FailedSaveLeavesAggregate ==
    [][\A c \in Callers :
          /\ (ret'.caller = c /\ ret'.call = "save" /\ ret'.exc # <<>>)
             => /\ agg'[c] = agg[c]
                /\ Len(agg'[c][1]._uncommitted_events) = LastSave(c).k
                /\ IdsOf(agg'[c][1]._uncommitted_events)
                     = SubSeq(agg[c][1].metrics,
                              LoadedVersion(agg[c][1]) + 1,
                              Len(agg[c][1].metrics))
          /\ (/\ agg[c] # <<>>
              /\ agg[c][1]._uncommitted_events # <<>>
              /\ ret'.call \notin {"get_by_id", "create"}
              /\ agg'[c][1]._uncommitted_events = <<>>)
             => /\ ret' = Ret(c, "save", "ok", agg[c][1].id)
                /\ pc[c] = "put"
                /\ op[c].i = Len(agg[c][1]._uncommitted_events)
                /\ acked'[op[c].id] = acked[op[c].id] + 1]_vars

\* C31 witness: a save of two events has failed at its second append, the
\* first event is stored, and the handle still holds both as uncommitted.
C31_Witness ==
    /\ ret.call = "save"
    /\ ret.exc # <<>>
    /\ LET a == agg[ret.caller][1]
       IN  /\ Len(a._uncommitted_events) = 2
           /\ Durable(a._uncommitted_events[1].event_id)
           /\ ~Durable(a._uncommitted_events[2].event_id)

\* The uncommitted events of the aggregate object of caller c in handles h.
Uncommitted(h, c) == h[c][1]._uncommitted_events

\* C32: the uncommitted events of an aggregate object go from empty to
\* non-empty only in raise_event and from non-empty to empty only in
\* mark_events_as_committed, called directly or by a save that succeeded;
\* apply_event, get_by_id, get_events and a save that failed leave the
\* uncommitted events of every object as they were, get_by_id returns an
\* object with none, and no step decreases the version of an object.
C32_LifecycleTransitions ==
    [][\A c \in Callers :
          /\ (agg[c] # <<>>)
             => /\ agg'[c] # <<>>
                /\ (Uncommitted(agg, c) = <<>> /\ Uncommitted(agg', c) # <<>>)
                   => (ret'.caller = c /\ ret'.call = "raise_event")
                /\ (Uncommitted(agg, c) # <<>> /\ Uncommitted(agg', c) = <<>>)
                   => /\ ret'.caller = c
                      /\ ret'.outcome = "ok"
                      /\ ret'.call \in {"mark_events_as_committed", "save"}
                /\ (\/ ret'.call \in {"apply_event", "get_by_id", "get_events"}
                    \/ (ret'.call = "save" /\ ret'.exc # <<>>))
                   => Uncommitted(agg', c) = Uncommitted(agg, c)
                /\ agg'[c][1]._version >= agg[c][1]._version
                /\ agg'[c][1].version >= agg[c][1].version
          /\ (agg[c] = <<>> /\ agg'[c] # <<>> /\ ret'.call = "get_by_id")
             => Uncommitted(agg', c) = <<>>]_vars

\* C32 witness: apply_event has just been applied to an object that holds
\* an uncommitted event, while the other caller's object, loaded with
\* get_by_id, holds none.
C32_Witness ==
    /\ ret.call = "apply_event"
    /\ ret.outcome = "ok"
    /\ agg[ret.caller][1]._version = 2
    /\ Len(agg[ret.caller][1]._uncommitted_events) = 1
    /\ \E d \in Callers \ {ret.caller} :
          /\ agg[d] # <<>>
          /\ agg[d][1]._version >= 1
          /\ agg[d][1]._uncommitted_events = <<>>

\* C33: after a save of aggregate A that succeeded with no other writer on
\* its id, get_by_id of that id returns an aggregate with the id, the
\* version (the exposed attribute and the counter) and the domain state A
\* had in memory when it was saved, and with no uncommitted events.
C33_ReloadEqualsSaved ==
    (/\ work[Tester].stage = "done"
     /\ work[Reader].stage = "reloaded"
     /\ ret.outcome = "ok")
    => /\ agg[Reader] # <<>>
       /\ agg[Reader][1].id = agg[Tester][1].id
       /\ agg[Reader][1].version = agg[Tester][1].version
       /\ agg[Reader][1]._version = agg[Tester][1]._version
       /\ DomainState(agg[Reader][1]) = DomainState(agg[Tester][1])
       /\ agg[Reader][1]._uncommitted_events = <<>>

\* The event caller c raised while serving its request is stored.
RequestEventStored(c) == \E it \in table : it.eventId = <<c, 1>>

\* C34: when two concurrent collect_metric requests for the same metric
\* name have both been answered with status 201, the stream of the
\* aggregate holds the events of both requests, as two distinct records.
C34_AcknowledgedWritesKept ==
    (Answered(1, 201) /\ Answered(2, 201))
    => /\ RequestEventStored(1)
       /\ RequestEventStored(2)
       /\ Cardinality({it \in Partition(table, "a") :
                          it.eventId \in {<<1, 1>>, <<2, 1>>}}) = 2

\* The domain operations.
DomainCalls ==
    {"aggregate.collect_metric", "aggregate.create_alert",
     "aggregate.trigger_alert"}

\* The input of the operation that has just returned fails its pre-check:
\* a metric or alert that validate rejects, or, for trigger_alert, an id
\* that no alert of the aggregate before the call has or whose alert is
\* not active.
PreCheckFails(call, input, a) ==
    CASE call = "aggregate.collect_metric" -> input = "no_name"
      [] call = "aggregate.create_alert" -> input.name = ""
      [] call = "aggregate.trigger_alert" ->
            \/ \A i \in DOMAIN a.alerts : a.alerts[i].id # input
            \/ \E i \in DOMAIN a.alerts :
                  /\ a.alerts[i].id = input
                  /\ ~a.alerts[i].is_active
                  /\ \A j \in 1..(i - 1) : a.alerts[j].id # input

\* C35: collect_metric with an invalid metric, create_alert with an invalid
\* alert and trigger_alert for an alert id that is unknown or inactive each
\* raise an error, raise no event, and leave the aggregate's
\* uncommitted_events, version and domain state exactly as they were.
C35_FailedPreCheckChangesNothing ==
    [][(/\ ret'.call \in DomainCalls
        /\ PreCheckFails(ret'.call, ret'.value[1], agg[ret'.caller][1]))
       => /\ ret'.exc # <<>>
          /\ nextId' = nextId
          /\ agg'[ret'.caller] = agg[ret'.caller]]_vars

\* C35 witness: trigger_alert has just raised for an alert that is not
\* active, on an aggregate that holds uncommitted events.
C35_Witness ==
    /\ ret.call = "aggregate.trigger_alert"
    /\ ret.exc # <<>>
    /\ ret.exc[1] = AlertNotActive(ret.value[1])
    /\ Len(agg[AlertCaller][1]._uncommitted_events) >= 2
    /\ agg[MetricCaller] # <<>>
    /\ agg[MetricCaller][1]._uncommitted_events # <<>>

\* C36: a storage failure during get_events makes get_by_id raise an error
\* to its caller, who gets neither None nor an aggregate; the failure of an
\* append makes save raise an error instead of returning normally; and
\* the call is over at the step of the failed table call, which it does
\* not repeat.
C36_StoreErrorsPropagate ==
    [][\A c \in Callers :
          /\ (ret'.caller = c /\ ret'.call = "get_by_id"
                /\ ret'.outcome = "error")
             => /\ ret'.exc # <<>>
                /\ ret'.exc[1].type = "SkafuException"
                /\ agg'[c] = agg[c]
                /\ work'[c].stage = "gaveup"
                /\ table' = table
          /\ (/\ pc[c] \in {"seq", "put"}
              /\ op[c].kind = "save"
              /\ ret'.caller = c
              /\ ret'.outcome \in {"error", "conflict"})
             => /\ ret'.exc # <<>>
                /\ ret'.exc[1].type = "SkafuException"
                /\ pc'[c] = "idle"
                /\ op'[c] = NoOp
                /\ work'[c].stage \in {"lost", "failed"}
          /\ (ret'.caller = c /\ ret'.call = "save" /\ ret'.exc = <<>>)
             => /\ pc[c] = "put"
                /\ op[c].i = Len(op[c].batch)
                /\ acked'[op[c].id] = acked[op[c].id] + 1]_vars

\* C36 witness: the second append of a save has just failed with a storage
\* error, its first event being stored, and the get_by_id of the other
\* caller has failed.
C36_Witness ==
    /\ ret.call = "save"
    /\ ret.outcome = "error"
    /\ ret.exc # <<>>
    /\ LastSave(ret.caller).k >= 2
    /\ Durable(agg[ret.caller][1]._uncommitted_events[1].event_id)
    /\ \E d \in Callers \ {ret.caller} : work[d].stage = "gaveup"

\* C37: every event has a non-empty correlation_id once constructed.  An
\* event constructed with an empty correlation_id gets the id of the
\* current context, a newly generated one when the context holds none,
\* which the context then holds, so that all events constructed with an
\* empty correlation_id until the context variable is next assigned carry
\* the same id; an event constructed with a non-empty correlation_id keeps
\* it.
C37_CorrelationIdNeverEmpty ==
    [][ret'.call = "Event"
       => LET c == ret'.caller
              given == ret'.value[1]
              got == ret'.value[2]
              events == work'[c].log
          IN  /\ got # <<>>
              /\ given # <<>>
                 => (got = given /\ current_id'[c] = current_id[c])
              /\ given = <<>>
                 => /\ got = current_id'[c]
                    /\ current_id[c] # <<>> => got = current_id[c]
                    /\ current_id[c] = <<>>
                       => /\ got \notin GivenIds
                          /\ \A d \in Callers \ {c} : got # current_id[d]
                          /\ nextId'[c] = nextId[c] + 1
              /\ \A i \in DOMAIN events, j \in DOMAIN events :
                    (events[i].given = <<>> /\ events[j].given = <<>>)
                    => events[i].correlation_id = events[j].correlation_id
              /\ \A d \in Callers \ {c} : current_id'[d] = current_id[d]]_vars

\* C37 witness: in a context whose variable had been cleared, a caller has
\* constructed two events with an empty correlation_id, after another id
\* had been generated for it before.
C37_Witness ==
    /\ ret.call = "Event"
    /\ nextId[ret.caller] = 2
    /\ current_id[ret.caller] = <<ret.caller, 2>>
    /\ work[ret.caller].log
         = <<[given |-> <<>>, correlation_id |-> <<ret.caller, 2>>],
             [given |-> <<>>, correlation_id |-> <<ret.caller, 2>>]>>

=============================================================================
